---- MODULE Spec2Model ----
(***************************************************************************)
(* The process pools of thejoker/pool.py as one state machine.  Rank 0 is  *)
(* the master, ranks 1..size are the workers; every rank runs the same     *)
(* program and constructs its own pool object.  Messages travel over       *)
(* per-worker channels that keep the order of one sender (MPI's            *)
(* non-overtaking rule); a non-blocking or standard-mode send is buffered. *)
(* One behaviour is one run of a program that constructs one pool of one   *)
(* class; Init chooses the class and the constructor arguments.            *)
(***************************************************************************)
EXTENDS Integers, Sequences, FiniteSets, TLC

\* ------------------------------------------------------------------ bounds
MaxN == 2          \* most worker ranks (and worker processes of MultiPool)
MaxTasks == 3      \* longest input of a map call
MaxVal == 1        \* inputs are drawn from 0..MaxVal
MaxCols == 2       \* widest input matrix of MPIOptimizedPool
MaxCalls == 3      \* most map calls of one run
MaxCloses == 1     \* most close() calls the application makes itself
MaxTimeouts == 2   \* most timeouts of r.get() counted in one map call of MultiPool

\* --------------------------------------------------------------- constants
TAG_TASK == 0
TAG_NEW_FUNC == 1
TAG_NEW_DIMS == 2
TAG_CLOSE == 3

Workers == 1..MaxN
Vals == 0..MaxVal
Funcs == {"f1", "f2"}
placeholder_function == "placeholder"
None == -1
NaNRow == -2
NoRet == [has |-> FALSE, val |-> <<>>]

\* The mapped functions: pure, returning for every input (the all-NaN row
\* too), and with disjoint ranges, so that a value tells which function
\* computed it and from which input.
Apply(f, x) == IF f = "f1" THEN x + 10 ELSE x + 20

\* the serial oracle, [f(x) for x in xs]
Serial(f, xs) == [i \in 1..Len(xs) |-> Apply(f, xs[i])]

Inputs == UNION {[1..n -> Vals] : n \in 0..MaxTasks}

Distributed == {"MPIPool", "MPIPool2", "MPIOptimizedPool"}
Backends == Distributed \cup {"SerialPool", "MultiPool"}

VARIABLES
  backend,        \* the pool class this program constructs
  mpiAvail,       \* MPI is not None
  commSize,       \* comm.Get_size()
  processes,      \* the worker processes of MultiPool
  loadbalance, wait_on_start, exit_on_end,
  entry,          \* how the program gets its pool: "direct" (the class is called) or "choose_pool"
  mpi,            \* the mpi argument of choose_pool
  mpc,            \* where rank 0 is
  wpc,            \* where each worker rank is
  wvia,           \* how a worker got into wait(): "none", "ctor", "wait", "map"
  mfunction,      \* self.function on rank 0
  mdims,          \* self.dims on rank 0 (MPIOptimizedPool)
  wfunction,      \* self.function on each worker
  wdims,          \* self.dims on each worker
  wtag,           \* the control tag a worker of MPIOptimizedPool acknowledged
  toWorker,       \* messages rank 0 -> worker, in send order
  toMaster,       \* messages worker -> rank 0, in send order
  argf, tasks,    \* the arguments of the running (or last) map call
  cols,           \* iterable.shape[1] (MPIOptimizedPool)
  chunks,         \* the matrix `tasks` of MPIOptimizedPool.map, one chunk per worker
  phase,          \* the tag of the running negotiation (MPIOptimizedPool)
  results, idx, ntasks_dispatched,    \* locals of map
  workerset, tasklist, pending,       \* locals of MPIPool2.map
  taskqueue,      \* MultiPool: the tasks no worker process has taken yet
  wjob,           \* MultiPool: the task a worker process is running
  wsig,           \* MultiPool: what SIGINT does in a worker process
  number_left,    \* MultiPool: results the submitted batch still waits for
  timeouts,       \* MultiPool: timeouts of r.get() in this map call
  interrupted,    \* MultiPool: SIGINT reached the master inside r.get()
  twin,           \* the first of two runs of one input under both policies
  ret,            \* what the last map call returned
  ncalls, ncloses,
  fhist,          \* the functions of the map calls so far, in call order
  sent,           \* the task messages dispatched by the map call so far
  closer,         \* who called the running (or last) close(): "none", "app", "exit"
  scope,          \* the with-statement around the pool: "none", "in", "left"
  target,         \* what __enter__ returned
  exitCloses,     \* close() calls made by __exit__
  bodyRaised,     \* the with-body raised
  excOut,         \* the exception left the with-statement
  samples,        \* the JokerSamples object the program works with
  op,             \* the last operation on it and its arguments
  outcome         \* what that operation raised, "none" if it returned

\* the container of samples, which no pool touches
sampleVars == <<samples, op, outcome>>
cfgVars == <<backend, mpiAvail, commSize, processes, wait_on_start, exit_on_end,
             entry, mpi, sampleVars>>
mstate == <<mfunction, mdims>>
wstate == <<wfunction, wdims, wtag>>
workerVars == <<wpc, wvia, wstate>>
chanVars == <<toWorker, toMaster>>
callArgs == <<argf, tasks, cols, chunks>>
callLocals == <<phase, results, idx, ntasks_dispatched, workerset, tasklist, pending>>
callVars == <<callArgs, callLocals>>
histVars == <<ret, ncalls, fhist, sent, ncloses>>
scopeVars == <<closer, scope, target, exitCloses, bodyRaised, excOut>>
multiVars == <<taskqueue, wjob, wsig, number_left, timeouts, interrupted>>

vars == <<cfgVars, loadbalance, mpc, workerVars, mstate, chanVars, callVars, histVars,
          scopeVars, multiVars, twin>>

\* what no step of a pool of the message-passing classes changes
fixed == <<cfgVars, loadbalance, multiVars, twin>>

size == commSize - 1
Ranks == 1..size
Procs == 1..processes
NoTwin == [has |-> FALSE, f |-> placeholder_function, tasks |-> <<>>, val |-> <<>>,
           loadbalance |-> FALSE]

Msg(kind, tag, obj) == [kind |-> kind, tag |-> tag, obj |-> obj]

\* comm.isend / comm.send / comm.Send to one worker
SendTo(ch, w, m) == [ch EXCEPT ![w] = Append(@, m)]
\* the same message to every worker of the pool
SendAll(ch, m) == [w \in Workers |-> IF w \in Ranks THEN Append(ch[w], m) ELSE ch[w]]

Remove(q, k) == [j \in 1..(Len(q) - 1) |-> IF j < k THEN q[j] ELSE q[j + 1]]

\* the constructor arguments each pool class takes
HasLoadbalance(b) == b = "MPIPool"
HasExitOnEnd(b) == b \in {"MPIPool", "MPIOptimizedPool"}

\* the arguments and the process group of a run
Config ==
  /\ backend \in Backends
  /\ mpiAvail \in BOOLEAN
  /\ commSize \in (IF backend \in Distributed THEN 1..(MaxN + 1) ELSE {1})
  /\ processes \in (IF backend = "MultiPool" THEN 1..MaxN ELSE {1})
  /\ loadbalance \in (IF HasLoadbalance(backend) THEN BOOLEAN ELSE {FALSE})
  /\ wait_on_start \in (IF backend \in Distributed THEN BOOLEAN ELSE {FALSE})
  /\ exit_on_end \in (IF HasExitOnEnd(backend) THEN BOOLEAN ELSE {FALSE})
  /\ entry = "direct"
  /\ mpi = FALSE

\* the processes of the run: the worker ranks of the process group, or the
\* worker processes MultiPool starts
FreshWpc ==
  [w \in Workers |->
     IF w \in Ranks \/ (backend = "MultiPool" /\ w \in Procs) THEN "start" ELSE "absent"]

\* a JokerSamples object that is not constructed yet: no items, _n_samples None
NoSamples == [made |-> FALSE, items |-> <<>>, n_samples |-> None]
NoSlice == [kind |-> "slice", a |-> 0, b |-> 0, key |-> ""]
NoOp == [name |-> "none", key |-> "", val |-> [dim |-> 1, data |-> <<>>], slc |-> NoSlice]

\* every process of a run before its first statement
Fresh ==
  /\ mpc = "start"
  /\ wpc = FreshWpc
  /\ wvia = [w \in Workers |-> "none"]
  /\ mfunction = placeholder_function
  /\ mdims = <<1, 1>>
  /\ wfunction = [w \in Workers |-> placeholder_function]
  /\ wdims = [w \in Workers |-> <<1, 1>>]
  /\ wtag = [w \in Workers |-> TAG_TASK]
  /\ toWorker = [w \in Workers |-> <<>>]
  /\ toMaster = [w \in Workers |-> <<>>]
  /\ argf = placeholder_function
  /\ tasks = <<>>
  /\ cols = 1
  /\ chunks = <<>>
  /\ phase = TAG_TASK
  /\ results = <<>>
  /\ idx = 0
  /\ ntasks_dispatched = 0
  /\ workerset = {}
  /\ tasklist = <<>>
  /\ pending = 0
  /\ taskqueue = <<>>
  /\ wjob = [w \in Workers |-> None]
  /\ wsig = [w \in Workers |-> "SIG_DFL"]
  /\ number_left = 0
  /\ timeouts = 0
  /\ interrupted = FALSE
  /\ ret = NoRet
  /\ ncalls = 0
  /\ fhist = <<>>
  /\ sent = <<>>
  /\ ncloses = 0
  /\ closer = "none"
  /\ scope = "none"
  /\ target = "unbound"
  /\ exitCloses = 0
  /\ bodyRaised = FALSE
  /\ excOut = FALSE
  /\ samples = NoSamples
  /\ op = NoOp
  /\ outcome = "none"

Init == Config /\ Fresh /\ twin = NoTwin

\* ----------------------------------------------------------- construction

\* a constructor that does not look at the size of the process group
MPIPool_init_unchecked(rank) ==
  IF ~mpiAvail THEN "ImportError"
  ELSE IF wait_on_start /\ rank # 0 THEN "wait"
  ELSE "app"

\* MPIPool.__init__ on one rank: how the constructor ends
MPIPool_init(rank) ==
  IF ~mpiAvail THEN "ImportError"
  ELSE IF size = 0 THEN "ValueError"
  ELSE IF wait_on_start /\ rank # 0 THEN "wait"
  ELSE "app"

\* MPIPool2.__init__ on one rank
MPIPool2_init(rank) ==
  IF ~mpiAvail THEN "ImportError"
  ELSE IF size = 0 THEN "ValueError"
  ELSE IF wait_on_start /\ rank # 0 THEN "wait"
  ELSE "app"

\* a constructor that never enters the loop
MPIOptimizedPool_init_returns(rank) ==
  IF ~mpiAvail THEN "ImportError"
  ELSE IF commSize <= 1 THEN "ValueError"
  ELSE "app"

\* MPIOptimizedPool.__init__ on one rank
MPIOptimizedPool_init(rank) ==
  IF ~mpiAvail THEN "ImportError"
  ELSE IF commSize <= 1 THEN "ValueError"
  ELSE IF wait_on_start /\ rank # 0 THEN "wait"
  ELSE "app"

\* SerialPool.__init__ and MultiPool.__init__ take no transport and return;
\* multiprocessing.pool.Pool refuses a process count below one
SerialPool_init == "app"
MultiPool_init == IF processes < 1 THEN "ValueError" ELSE "app"

\* the constructor of the pool class of this run
Construct(rank) ==
  CASE backend = "MPIPool" -> MPIPool_init(rank)
    [] backend = "MPIPool2" -> MPIPool2_init(rank)
    [] backend = "MPIOptimizedPool" -> MPIOptimizedPool_init(rank)
    [] backend = "SerialPool" -> SerialPool_init
    [] backend = "MultiPool" -> MultiPool_init

\* rank 0 constructs its pool
MasterInit ==
  /\ mpc = "start"
  /\ mpc' = Construct(0)
  /\ UNCHANGED <<fixed, workerVars, mstate, chanVars, callVars, histVars, scopeVars>>

\* worker rank w constructs its pool
WorkerInit(w) ==
  /\ backend \in Distributed
  /\ wpc[w] = "start"
  /\ LET how == Construct(w)
     IN /\ wpc' = [wpc EXCEPT ![w] = how]
        /\ wvia' = [wvia EXCEPT ![w] = IF how = "wait" THEN "ctor" ELSE @]
  /\ UNCHANGED <<fixed, mpc, wstate, mstate, chanVars, callVars, histVars, scopeVars>>

\* application code on a worker rank calls pool.wait(): every distributed
\* pool enters its loop when it is not the master
WorkerWait(w) ==
  /\ backend \in Distributed
  /\ wpc[w] = "app" /\ wvia[w] = "none"
  /\ wpc' = [wpc EXCEPT ![w] = "wait"]
  /\ wvia' = [wvia EXCEPT ![w] = "wait"]
  /\ UNCHANGED <<fixed, mpc, wstate, mstate, chanVars, callVars, histVars, scopeVars>>

\* a worker that always ends its process
AfterLoop_exits == "exited"

\* the state of a worker that left the loop of wait()
AfterLoop == IF exit_on_end THEN "exited" ELSE "app"

\* the application may start a map call
MayMap ==
  /\ mpc = "app" /\ ncloses = 0 /\ ncalls < MaxCalls
  /\ scope = "in" \/ backend = "MultiPool"

\* ---------------------------------------------------------------- MPIPool

\* one turn of the loop of MPIPool.wait on worker w
MPIPool_wait(w) ==
  /\ backend = "MPIPool"
  /\ wpc[w] = "wait"
  /\ toWorker[w] # <<>>
  /\ LET task == Head(toWorker[w])
     IN /\ toWorker' = [toWorker EXCEPT ![w] = Tail(@)]
        /\ IF task.kind = "close"
           THEN /\ wpc' = [wpc EXCEPT ![w] = AfterLoop]
                /\ UNCHANGED <<wfunction, toMaster>>
           ELSE IF task.kind = "func"
           THEN /\ wfunction' = [wfunction EXCEPT ![w] = task.obj]
                /\ UNCHANGED <<wpc, toMaster>>
           ELSE IF wfunction[w] = placeholder_function
           THEN /\ wpc' = [wpc EXCEPT ![w] = "Exception"]
                /\ UNCHANGED <<wfunction, toMaster>>
           ELSE /\ toMaster' = SendTo(toMaster, w,
                                  Msg("result", task.tag, Apply(wfunction[w], task.obj)))
                /\ UNCHANGED <<wpc, wfunction>>
  /\ UNCHANGED <<fixed, mpc, wvia, wdims, wtag, mstate, callVars, histVars, scopeVars>>

\* the task messages a step appended to the channels old, worker by worker
RECURSIVE Dispatched(_, _, _)
Dispatched(old, new, w) ==
  IF w > size THEN <<>>
  ELSE SelectSeq(SubSeq(new[w], Len(old[w]) + 1, Len(new[w])), LAMBDA m : m.kind = "task")
         \o Dispatched(old, new, w + 1)

\* tasks i.. of t sent with tag i to worker i % size + 1 (0-based i)
RECURSIVE StaticSend(_, _, _)
StaticSend(ch, t, i) ==
  IF i >= Len(t) THEN ch
  ELSE StaticSend(SendTo(ch, (i % size) + 1, Msg("task", i, t[i + 1])), t, i + 1)

\* a first round that gives every task to the first worker
RECURSIVE FirstRound_to_first(_, _, _)
FirstRound_to_first(ch, t, i) ==
  IF i >= size THEN ch
  ELSE FirstRound_to_first(SendTo(ch, 1, Msg("task", i, t[i + 1])), t, i + 1)

\* tasks[0:size] sent with tag i to worker i + 1
RECURSIVE FirstRound(_, _, _)
FirstRound(ch, t, i) ==
  IF i >= size THEN ch
  ELSE FirstRound(SendTo(ch, i + 1, Msg("task", i, t[i + 1])), t, i + 1)

\* a rebind that tells the workers of the first function only
MPIPool_rebind_once(ch, f) ==
  IF mfunction = placeholder_function THEN SendAll(ch, Msg("func", 0, f)) ELSE ch

\* a map call that announces no function
MPIPool_rebind_never(ch, f) == ch

\* a rebind sent with every map call
MPIPool_rebind_always(ch, f) == SendAll(ch, Msg("func", 0, f))

\* the function rebind of MPIPool.map
MPIPool_rebind(ch, f) ==
  IF f # mfunction THEN SendAll(ch, Msg("func", 0, f)) ELSE ch

\* a policy that balances as soon as every worker gets a task
UseStatic_below(n_tasks) == (~loadbalance) \/ (n_tasks < size)

\* the dispatch policy MPIPool.map takes for n_tasks tasks
UseStatic(n_tasks) == (~loadbalance) \/ (n_tasks <= size)

\* MPIPool.map on the master, up to the first receive
MPIPool_map(f, t) ==
  /\ backend = "MPIPool"
  /\ MayMap
  /\ ncalls' = ncalls + 1
  /\ argf' = f /\ tasks' = t
  /\ fhist' = Append(fhist, f)
  /\ mfunction' = f
  /\ ret' = NoRet
  /\ idx' = 0
  /\ IF UseStatic(Len(t))
     THEN /\ toWorker' = StaticSend(MPIPool_rebind(toWorker, f), t, 0)
          /\ results' = <<>>
          /\ ntasks_dispatched' = 0
          /\ mpc' = "static_recv"
     ELSE /\ toWorker' = FirstRound(MPIPool_rebind(toWorker, f), t, 0)
          /\ results' = [i \in 1..Len(t) |-> None]
          /\ ntasks_dispatched' = size
          /\ mpc' = "dyn_recv"
  /\ sent' = Dispatched(toWorker, toWorker', 1)
  /\ UNCHANGED <<fixed, workerVars, mdims, toMaster, cols, chunks, phase, workerset,
                 tasklist, pending, ncloses, scopeVars>>

\* a receive that takes the newest message whatever its tag
LastArrived(q, t) == Len(q)

\* the position of the first message of q with tag t, 0 if there is none
FirstTagged(q, t) ==
  IF \E k \in 1..Len(q) : q[k].tag = t
  THEN CHOOSE k \in 1..Len(q) : q[k].tag = t /\ \A j \in 1..(k - 1) : q[j].tag # t
  ELSE 0

\* a master that expects every result from the first worker
StaticWorker_first(i) == 1

\* the worker the static policy gives task i to
StaticWorker(i) == (i % size) + 1

\* comm.recv(source=worker, tag=i) of the static policy
MPIPool_map_static_recv ==
  /\ backend = "MPIPool"
  /\ mpc = "static_recv"
  /\ idx < Len(tasks)
  /\ LET worker == StaticWorker(idx)
         k == FirstTagged(toMaster[worker], idx)
     IN /\ k # 0
        /\ results' = Append(results, toMaster[worker][k].obj)
        /\ toMaster' = [toMaster EXCEPT ![worker] = Remove(@, k)]
  /\ idx' = idx + 1
  /\ UNCHANGED <<fixed, mpc, workerVars, mstate, toWorker, callArgs, phase,
                 ntasks_dispatched, workerset, tasklist, pending, histVars, scopeVars>>

\* a store by order of arrival
MPIPool_dyn_store_by_arrival(res, itask, tag, obj) == [res EXCEPT ![itask + 1] = obj]

\* results[i] = result, with i = status.tag
MPIPool_dyn_store(res, itask, tag, obj) == [res EXCEPT ![tag + 1] = obj]

\* comm.recv(source=ANY_SOURCE, tag=ANY_TAG) of the dynamic policy, and the
\* next task for the worker that answered
MPIPool_map_dyn_recv(worker) ==
  /\ backend = "MPIPool"
  /\ mpc = "dyn_recv"
  /\ idx < Len(tasks)
  /\ toMaster[worker] # <<>>
  /\ LET m == Head(toMaster[worker])
     IN results' = MPIPool_dyn_store(results, idx, m.tag, m.obj)
  /\ toMaster' = [toMaster EXCEPT ![worker] = Tail(@)]
  /\ IF ntasks_dispatched < Len(tasks)
     THEN /\ toWorker' = SendTo(toWorker, worker,
                           Msg("task", ntasks_dispatched, tasks[ntasks_dispatched + 1]))
          /\ ntasks_dispatched' = ntasks_dispatched + 1
     ELSE UNCHANGED <<toWorker, ntasks_dispatched>>
  /\ sent' = sent \o Dispatched(toWorker, toWorker', 1)
  /\ idx' = idx + 1
  /\ UNCHANGED <<fixed, mpc, workerVars, mstate, callArgs, phase, workerset,
                 tasklist, pending, ret, ncalls, fhist, ncloses, scopeVars>>

\* return results
MPIPool_map_return ==
  /\ backend = "MPIPool"
  /\ mpc \in {"static_recv", "dyn_recv"}
  /\ idx = Len(tasks)
  /\ ret' = [has |-> TRUE, val |-> results]
  /\ mpc' = "app"
  /\ UNCHANGED <<fixed, workerVars, mstate, chanVars, callVars, ncalls, fhist, sent, ncloses,
                 scopeVars>>

\* MPIPool.close: the channels after it
MPIPool_close(ch) == SendAll(ch, Msg("close", 0, None))

\* --------------------------------------------------------------- MPIPool2

\* where a worker goes when the loop of MPIPool2.wait ends: wait() returns to
\* its caller, and a worker rank inside choose_pool then calls sys.exit(0)
MPIPool2_after_loop == IF entry = "choose_pool" THEN "exited" ELSE "app"

\* one turn of the loop of MPIPool2.wait: receive, and for a task compute
\* and start the synchronous send of the result
MPIPool2_wait(w) ==
  /\ backend = "MPIPool2"
  /\ wpc[w] = "wait"
  /\ toWorker[w] # <<>>
  /\ LET task == Head(toWorker[w])
     IN /\ toWorker' = [toWorker EXCEPT ![w] = Tail(@)]
        /\ IF task.kind = "None"
           THEN /\ wpc' = [wpc EXCEPT ![w] = MPIPool2_after_loop]
                /\ UNCHANGED toMaster
           ELSE /\ toMaster' = SendTo(toMaster, w,
                                  Msg("result", task.tag, Apply(task.obj.func, task.obj.arg)))
                /\ wpc' = [wpc EXCEPT ![w] = "ssend"]
  /\ UNCHANGED <<fixed, mpc, wvia, wstate, mstate, callVars, histVars, scopeVars>>

\* comm.ssend returns once the master has received the result
MPIPool2_wait_sent(w) ==
  /\ backend = "MPIPool2"
  /\ wpc[w] = "ssend"
  /\ toMaster[w] = <<>>
  /\ wpc' = [wpc EXCEPT ![w] = "wait"]
  /\ UNCHANGED <<fixed, mpc, wvia, wstate, mstate, chanVars, callVars, histVars,
                 scopeVars>>

\* a task list that gives every task the id 0
MPIPool2_tasklist_untagged(func, iterable) ==
  [k \in 1..Len(iterable) |-> [tid |-> 0, task |-> [func |-> func, arg |-> iterable[k]]]]

\* tasklist = [(tid, (func, arg)) for tid, arg in enumerate(iterable)]
MPIPool2_tasklist(func, iterable) ==
  [k \in 1..Len(iterable) |-> [tid |-> k - 1, task |-> [func |-> func, arg |-> iterable[k]]]]

\* MPIPool2.map on the master, up to the loop
MPIPool2_map(func, iterable) ==
  /\ backend = "MPIPool2"
  /\ MayMap
  /\ ncalls' = ncalls + 1
  /\ argf' = func /\ tasks' = iterable
  /\ fhist' = Append(fhist, func)
  /\ sent' = <<>>
  /\ ret' = NoRet
  /\ workerset' = Ranks
  /\ tasklist' = MPIPool2_tasklist(func, iterable)
  /\ results' = [i \in 1..Len(iterable) |-> None]
  /\ pending' = Len(iterable)
  /\ mpc' = "loop"
  /\ UNCHANGED <<fixed, workerVars, mstate, chanVars, cols, chunks, phase, idx,
                 ntasks_dispatched, ncloses, scopeVars>>

\* a pop from the front of the list
MPIPool2_pop_front(tl) == 1

\* tasklist.pop(): the position of the task taken
MPIPool2_pop(tl) == Len(tl)

\* a pop that leaves the worker in the set
workerset_keep(ws, worker) == ws

\* workerset.pop(): the set without the worker taken
workerset_pop(ws, worker) == ws \ {worker}

\* while pending: if workerset and tasklist: send one task
MPIPool2_map_assign(worker) ==
  /\ backend = "MPIPool2"
  /\ mpc = "loop"
  /\ pending # 0
  /\ worker \in workerset /\ tasklist # <<>>
  /\ LET k == MPIPool2_pop(tasklist)
     IN /\ toWorker' = SendTo(toWorker, worker, Msg("task", tasklist[k].tid, tasklist[k].task))
        /\ tasklist' = Remove(tasklist, k)
  /\ sent' = sent \o Dispatched(toWorker, toWorker', 1)
  /\ workerset' = workerset_pop(workerset, worker)
  /\ mpc' = "probe"
  /\ UNCHANGED <<fixed, workerVars, mstate, toMaster, callArgs, phase, results, idx,
                 ntasks_dispatched, pending, ret, ncalls, fhist, ncloses, scopeVars>>

\* ... and when there is no idle worker or no task left, nothing is sent
MPIPool2_map_skip ==
  /\ backend = "MPIPool2"
  /\ mpc = "loop"
  /\ pending # 0
  /\ workerset = {} \/ tasklist = <<>>
  /\ mpc' = "probe"
  /\ UNCHANGED <<fixed, workerVars, mstate, chanVars, callVars, histVars, scopeVars>>

\* a loop that always takes the blocking Probe
MPIPool2_always_Probe(tl) == TRUE

\* if tasklist: Iprobe ... else: Probe -- the probe of this turn blocks
MPIPool2_blocking_probe(tl) == tl = <<>>

\* Iprobe finds nothing while tasks remain: continue
MPIPool2_map_continue ==
  /\ backend = "MPIPool2"
  /\ mpc = "probe"
  /\ ~MPIPool2_blocking_probe(tasklist)
  /\ \A w \in Ranks : toMaster[w] = <<>>
  /\ mpc' = "loop"
  /\ UNCHANGED <<fixed, workerVars, mstate, chanVars, callVars, histVars, scopeVars>>

\* a store that counts task ids from the other end
MPIPool2_store_reversed(res, taskid, result) == [res EXCEPT ![Len(res) - taskid] = result]

\* resultlist[taskid] = result
MPIPool2_store(res, taskid, result) == [res EXCEPT ![taskid + 1] = result]

\* a message is there (Iprobe, or the blocking Probe): receive it
MPIPool2_map_recv(worker) ==
  /\ backend = "MPIPool2"
  /\ mpc = "probe"
  /\ toMaster[worker] # <<>>
  /\ LET m == Head(toMaster[worker])
     IN results' = MPIPool2_store(results, m.tag, m.obj)
  /\ toMaster' = [toMaster EXCEPT ![worker] = Tail(@)]
  /\ workerset' = workerset \cup {worker}
  /\ pending' = pending - 1
  /\ mpc' = "loop"
  /\ UNCHANGED <<fixed, workerVars, mstate, toWorker, callArgs, phase, idx,
                 ntasks_dispatched, tasklist, histVars, scopeVars>>

\* return resultlist
MPIPool2_map_return ==
  /\ backend = "MPIPool2"
  /\ mpc = "loop"
  /\ pending = 0
  /\ ret' = [has |-> TRUE, val |-> results]
  /\ mpc' = "app"
  /\ UNCHANGED <<fixed, workerVars, mstate, chanVars, callVars, ncalls, fhist, sent, ncloses,
                 scopeVars>>

\* a close that tells the first worker only
MPIPool2_close_first(ch) == SendTo(ch, 1, Msg("None", 0, None))

\* MPIPool2.close: the channels after it
MPIPool2_close(ch) == SendAll(ch, Msg("None", 0, None))

\* ------------------------------------------------------- MPIOptimizedPool

\* a fixed-shape buffer sent with comm.Send
Arr(tag, shape, rows) == Msg("array", tag, [shape |-> shape, rows |-> rows])
\* MSG_EMPTY()
MSG_EMPTY == [shape |-> <<1>>, rows |-> <<>>]

\* q, r = divmod(iterable.shape[0], self.size)
Opt_q(n) == n \div size
Opt_r(n) == n % size

\* dims: the shape of the chunk every worker is sent
Opt_dims(n, c) == <<IF Opt_r(n) = 0 THEN Opt_q(n) ELSE Opt_q(n) + 1, c>>

\* a padding that gives no chunk a remainder row
FULL_none(n, i) == 0

\* FULL = np.zeros(self.size); FULL[:r] = 1   (i counts from 0)
FULL(n, i) == IF i < Opt_r(n) THEN 1 ELSE 0

\* a, the first row of chunk i
RECURSIVE Opt_a(_, _)
Opt_a(n, i) == IF i = 0 THEN 0 ELSE Opt_a(n, i - 1) + Opt_q(n) + FULL(n, i - 1)

\* tasks[i]: the rows a..b of the input, and the all-NaN row when the chunk
\* got no remainder row
Opt_chunk(t, i) ==
  LET n == Len(t)
      a == Opt_a(n, i)
      b == a + Opt_q(n) + FULL(n, i)
  IN IF Opt_r(n) # 0 /\ FULL(n, i) = 0
     THEN Append(SubSeq(t, a + 1, b), NaNRow)
     ELSE SubSeq(t, a + 1, b)

\* the matrix tasks: chunk i of the input for worker i + 1
Opt_tasks(t) == [w \in 1..size |-> Opt_chunk(t, w - 1)]

\* comm.Send(tasks[w], dest = worker, tag = TAG_TASK) for every worker
Opt_send_tasks(ch, t, c) ==
  [w \in Workers |->
     IF w \in Ranks
     THEN Append(ch[w], Arr(TAG_TASK, Opt_dims(Len(t), c), Opt_chunk(t, w - 1)))
     ELSE ch[w]]

\* a shape negotiation announced with a placeholder of the new shape
Opt_from_dims_newshape(ch, t, c) ==
  IF Opt_dims(Len(t), c) # mdims
  THEN [pc |-> "ack1", phase |-> TAG_NEW_DIMS,
        ch |-> SendAll(ch, Arr(TAG_NEW_DIMS, Opt_dims(Len(t), c), <<>>))]
  ELSE [pc |-> "task_recv", phase |-> TAG_TASK, ch |-> Opt_send_tasks(ch, t, c)]

\* from "New dimensions?" on: the master's next blocking receive
Opt_from_dims(ch, t, c) ==
  IF Opt_dims(Len(t), c) # mdims
  THEN [pc |-> "ack1", phase |-> TAG_NEW_DIMS,
        ch |-> SendAll(ch, Arr(TAG_NEW_DIMS, mdims, <<>>))]
  ELSE [pc |-> "task_recv", phase |-> TAG_TASK, ch |-> Opt_send_tasks(ch, t, c)]

\* a master that goes on without telling the workers of a new function
Opt_skip_func(ch, f, t, c) == Opt_from_dims(ch, t, c)

\* from "New function?" on
Opt_from_func(ch, f, t, c) ==
  IF f # mfunction
  THEN [pc |-> "ack1", phase |-> TAG_NEW_FUNC,
        ch |-> SendAll(ch, Arr(TAG_NEW_FUNC, mdims, <<>>))]
  ELSE Opt_from_dims(ch, t, c)

\* MPIOptimizedPool.map on the master, up to the first receive
MPIOptimizedPool_map(function, iterable, c) ==
  /\ backend = "MPIOptimizedPool"
  /\ MayMap
  /\ ncalls' = ncalls + 1
  /\ argf' = function /\ tasks' = iterable /\ cols' = c
  /\ chunks' = Opt_tasks(iterable)
  /\ fhist' = Append(fhist, function)
  /\ sent' = <<>>
  /\ ret' = NoRet
  /\ results' = [w \in 1..size |-> None]
  /\ idx' = 0
  /\ LET nx == Opt_from_func(toWorker, function, iterable, c)
     IN mpc' = nx.pc /\ phase' = nx.phase /\ toWorker' = nx.ch
  /\ UNCHANGED <<fixed, workerVars, mstate, toMaster, ntasks_dispatched,
                 workerset, tasklist, pending, ncloses, scopeVars>>

\* what the master sends in the second round of a negotiation
Opt_payload == IF phase = TAG_NEW_FUNC THEN argf ELSE Opt_dims(Len(tasks), cols)

\* first round: one thumbs-up from every worker, then the payload goes to
\* the first worker
MPIOptimizedPool_map_ack1(worker) ==
  /\ backend = "MPIOptimizedPool"
  /\ mpc = "ack1"
  /\ toMaster[worker] # <<>>
  /\ toMaster' = [toMaster EXCEPT ![worker] = Tail(@)]
  /\ IF Head(toMaster[worker]).tag # phase
     THEN /\ mpc' = "AssertionError"
          /\ UNCHANGED <<toWorker, idx>>
     ELSE IF idx + 1 < size
     THEN /\ idx' = idx + 1
          /\ UNCHANGED <<mpc, toWorker>>
     ELSE /\ toWorker' = SendTo(toWorker, 1, Msg("obj", phase, Opt_payload))
          /\ mpc' = "ack2"
          /\ idx' = 0
  /\ UNCHANGED <<fixed, workerVars, mstate, callArgs, phase, results,
                 ntasks_dispatched, workerset, tasklist, pending, histVars, scopeVars>>

\* second round: the payload to one worker at a time, each one answering;
\* after the last answer the master updates its own record and goes on
MPIOptimizedPool_map_ack2(worker) ==
  /\ backend = "MPIOptimizedPool"
  /\ mpc = "ack2"
  /\ toMaster[worker] # <<>>
  /\ toMaster' = [toMaster EXCEPT ![worker] = Tail(@)]
  /\ IF Head(toMaster[worker]).tag # phase
     THEN /\ mpc' = "AssertionError"
          /\ UNCHANGED <<toWorker, idx, phase, mstate>>
     ELSE IF idx + 1 < size
     THEN /\ toWorker' = SendTo(toWorker, idx + 2, Msg("obj", phase, Opt_payload))
          /\ idx' = idx + 1
          /\ UNCHANGED <<mpc, phase, mstate>>
     ELSE IF phase = TAG_NEW_FUNC
     THEN /\ mfunction' = argf
          /\ LET nx == Opt_from_dims(toWorker, tasks, cols)
             IN mpc' = nx.pc /\ phase' = nx.phase /\ toWorker' = nx.ch
          /\ idx' = 0
          /\ UNCHANGED mdims
     ELSE /\ mdims' = Opt_dims(Len(tasks), cols)
          /\ toWorker' = Opt_send_tasks(toWorker, tasks, cols)
          /\ mpc' = "task_recv"
          /\ phase' = TAG_TASK
          /\ idx' = 0
          /\ UNCHANGED mfunction
  /\ UNCHANGED <<fixed, workerVars, callArgs, results, ntasks_dispatched,
                 workerset, tasklist, pending, histVars, scopeVars>>

\* a master that keeps every element of every result vector
Opt_strip_never(full, result) == result

\* results[w] = result if FULL[w] else result[:-1]
Opt_strip(full, result) ==
  IF full = 1 THEN result ELSE SubSeq(result, 1, Len(result) - 1)

\* the result vector of one worker arrives
MPIOptimizedPool_map_task_recv(worker) ==
  /\ backend = "MPIOptimizedPool"
  /\ mpc = "task_recv"
  /\ idx < size
  /\ toMaster[worker] # <<>>
  /\ toMaster' = [toMaster EXCEPT ![worker] = Tail(@)]
  /\ LET m == Head(toMaster[worker])
         w == worker - 1
     IN IF m.tag # TAG_TASK
        THEN /\ mpc' = "AssertionError"
             /\ UNCHANGED <<results, idx>>
        ELSE /\ results' = [results EXCEPT ![w + 1] = Opt_strip(FULL(Len(tasks), w), m.obj)]
             /\ idx' = idx + 1
             /\ UNCHANGED mpc
  /\ UNCHANGED <<fixed, workerVars, mstate, toWorker, callArgs, phase,
                 ntasks_dispatched, workerset, tasklist, pending, histVars, scopeVars>>

\* [item for sublist in results for item in sublist]
RECURSIVE Flatten(_, _)
Flatten(rs, k) == IF k > Len(rs) THEN <<>> ELSE rs[k] \o Flatten(rs, k + 1)

\* flatten and return
MPIOptimizedPool_map_return ==
  /\ backend = "MPIOptimizedPool"
  /\ mpc = "task_recv"
  /\ idx = size
  /\ ret' = [has |-> TRUE, val |-> Flatten(results, 1)]
  /\ mpc' = "app"
  /\ UNCHANGED <<fixed, workerVars, mstate, chanVars, callVars, ncalls, fhist, sent, ncloses,
                 scopeVars>>

\* return [self.function(x) for x in task]: the statements after it never run
apply_function(f, task) == [k \in 1..Len(task) |-> Apply(f, task[k])]

\* the top of the loop of MPIOptimizedPool.wait: a buffer of shape
\* self.dims is received; a task is answered, a control tag acknowledged
MPIOptimizedPool_wait(w) ==
  /\ backend = "MPIOptimizedPool"
  /\ wpc[w] = "wait"
  /\ toWorker[w] # <<>>
  /\ toWorker' = [toWorker EXCEPT ![w] = Tail(@)]
  /\ LET m == Head(toWorker[w])
     IN IF m.kind # "array" \/ m.obj.shape # wdims[w]
        THEN /\ wpc' = [wpc EXCEPT ![w] = "MPIError"]
             /\ UNCHANGED <<toMaster, wtag>>
        ELSE IF m.tag = TAG_TASK
        THEN IF wfunction[w] = placeholder_function
             THEN /\ wpc' = [wpc EXCEPT ![w] = "Exception"]
                  /\ UNCHANGED <<toMaster, wtag>>
             ELSE /\ toMaster' = SendTo(toMaster, w,
                                   Msg("obj", m.tag, apply_function(wfunction[w], m.obj.rows)))
                  /\ UNCHANGED <<wpc, wtag>>
        ELSE /\ toMaster' = SendTo(toMaster, w, Msg("array", m.tag, MSG_EMPTY))
             /\ wtag' = [wtag EXCEPT ![w] = m.tag]
             /\ wpc' = [wpc EXCEPT ![w] = "ctl"]
  /\ UNCHANGED <<fixed, mpc, wvia, wfunction, wdims, mstate, callVars, histVars,
                 scopeVars>>

\* a worker that forgets its function on every other payload
Opt_bind_forgets(old, tag, obj) == IF tag = TAG_NEW_FUNC THEN obj ELSE placeholder_function

\* if tag == TAG_NEW_FUNC: self.function = ... -- the function afterwards
Opt_bind_function(old, tag, obj) == IF tag = TAG_NEW_FUNC THEN obj ELSE old

\* after the acknowledgment: the payload is received and acted on
MPIOptimizedPool_wait_ctl(w) ==
  /\ backend = "MPIOptimizedPool"
  /\ wpc[w] = "ctl"
  /\ toWorker[w] # <<>>
  /\ toWorker' = [toWorker EXCEPT ![w] = Tail(@)]
  /\ LET m == Head(toWorker[w])
         tag == wtag[w]
     IN IF m.kind # "obj"
        THEN /\ wpc' = [wpc EXCEPT ![w] = "MPIError"]
             /\ UNCHANGED <<toMaster, wfunction, wdims>>
        ELSE IF tag # m.tag
        THEN /\ wpc' = [wpc EXCEPT ![w] = "AssertionError"]
             /\ UNCHANGED <<toMaster, wfunction, wdims>>
        ELSE IF tag = TAG_CLOSE
        THEN /\ wpc' = [wpc EXCEPT ![w] = AfterLoop]
             /\ UNCHANGED <<toMaster, wfunction, wdims>>
        ELSE /\ wfunction' = [wfunction EXCEPT ![w] = Opt_bind_function(@, tag, m.obj)]
             /\ wdims' = [wdims EXCEPT ![w] = IF tag = TAG_NEW_DIMS THEN m.obj ELSE @]
             /\ toMaster' = SendTo(toMaster, w, Msg("array", tag, MSG_EMPTY))
             /\ wpc' = [wpc EXCEPT ![w] = "wait"]
  /\ UNCHANGED <<fixed, mpc, wvia, wtag, mstate, callVars, histVars, scopeVars>>

\* a close announced with the tag of a function update
MPIOptimizedPool_close_mistagged(ch) == SendAll(ch, Arr(TAG_NEW_FUNC, mdims, <<>>))

\* MPIOptimizedPool.close, first half: the channels after it
MPIOptimizedPool_close(ch) == SendAll(ch, Arr(TAG_CLOSE, mdims, <<>>))

\* ------------------------------------------------------------- SerialPool

\* SerialPool.map: list(map(function, iterable))
SerialPool_map(function, iterable) ==
  /\ backend = "SerialPool"
  /\ MayMap
  /\ ncalls' = ncalls + 1
  /\ argf' = function /\ tasks' = iterable
  /\ fhist' = Append(fhist, function)
  /\ sent' = <<>>
  /\ ret' = [has |-> TRUE, val |-> [i \in 1..Len(iterable) |-> Apply(function, iterable[i])]]
  /\ UNCHANGED <<fixed, mpc, workerVars, mstate, chanVars, cols, chunks, callLocals, ncloses,
                 scopeVars>>

\* -------------------------------------------------------------- MultiPool

\* _initializer_wrapper in a new worker process: SIGINT is ignored from
\* here on, and the process waits for tasks
initializer_wrapper(w) ==
  /\ backend = "MultiPool"
  /\ wpc[w] = "start"
  /\ wsig' = [wsig EXCEPT ![w] = "SIG_IGN"]
  /\ wpc' = [wpc EXCEPT ![w] = "idle"]
  /\ UNCHANGED <<cfgVars, loadbalance, twin, mpc, wvia, wstate, mstate, chanVars,
                 callVars, histVars, scopeVars, taskqueue, wjob, number_left,
                 timeouts, interrupted>>

\* MultiPool.map up to the loop: r = self.map_async(func, iterable, chunksize)
MultiPool_map(func, iterable) ==
  /\ backend = "MultiPool"
  /\ MayMap
  /\ ncalls' = ncalls + 1
  /\ argf' = func /\ tasks' = iterable
  /\ fhist' = Append(fhist, func)
  /\ sent' = <<>>
  /\ ret' = NoRet
  /\ taskqueue' = [k \in 1..Len(iterable) |-> k]
  /\ results' = [k \in 1..Len(iterable) |-> None]
  /\ number_left' = Len(iterable)
  /\ timeouts' = 0
  /\ mpc' = "get"
  /\ UNCHANGED <<cfgVars, loadbalance, twin, workerVars, mstate, chanVars, cols, chunks,
                 phase, idx, ntasks_dispatched, workerset, tasklist, pending,
                 ncloses, scopeVars, wjob, wsig, interrupted>>

\* a worker process takes the next task of the batch
MultiPool_worker_take(w) ==
  /\ backend = "MultiPool"
  /\ wpc[w] = "idle"
  /\ taskqueue # <<>>
  /\ wjob' = [wjob EXCEPT ![w] = Head(taskqueue)]
  /\ taskqueue' = Tail(taskqueue)
  /\ wpc' = [wpc EXCEPT ![w] = "busy"]
  /\ UNCHANGED <<cfgVars, loadbalance, twin, mpc, wvia, wstate, mstate, chanVars,
                 callVars, histVars, scopeVars, wsig, number_left, timeouts,
                 interrupted>>

\* ... and hands in its result
MultiPool_worker_done(w) ==
  /\ backend = "MultiPool"
  /\ wpc[w] = "busy"
  /\ results' = [results EXCEPT ![wjob[w]] = Apply(argf, tasks[wjob[w]])]
  /\ number_left' = number_left - 1
  /\ wjob' = [wjob EXCEPT ![w] = None]
  /\ wpc' = [wpc EXCEPT ![w] = "idle"]
  /\ UNCHANGED <<cfgVars, loadbalance, twin, mpc, wvia, wstate, mstate, chanVars,
                 callArgs, phase, idx, ntasks_dispatched, workerset, tasklist,
                 pending, histVars, scopeVars, taskqueue, wsig, timeouts, interrupted>>

\* return r.get(self.wait_timeout): the batch is complete
MultiPool_map_return ==
  /\ backend = "MultiPool"
  /\ mpc = "get"
  /\ number_left = 0
  /\ ret' = [has |-> TRUE, val |-> results]
  /\ mpc' = "app"
  /\ UNCHANGED <<cfgVars, loadbalance, twin, workerVars, mstate, chanVars, callVars,
                 ncalls, fhist, sent, ncloses, scopeVars, multiVars>>

\* a loop that lets the timeout out
MultiPool_raise_timeout == "TimeoutError"

\* except multiprocessing.TimeoutError: pass -- where the master goes
MultiPool_on_timeout == "get"

\* r.get(self.wait_timeout) times out before the batch is complete
MultiPool_map_timeout ==
  /\ backend = "MultiPool"
  /\ mpc = "get"
  /\ number_left # 0
  /\ timeouts < MaxTimeouts
  /\ timeouts' = timeouts + 1
  /\ mpc' = MultiPool_on_timeout
  /\ UNCHANGED <<cfgVars, loadbalance, twin, workerVars, mstate, chanVars,
                 callVars, histVars, scopeVars, taskqueue, wjob, wsig, number_left,
                 interrupted>>

\* a master that goes back to waiting
MultiPool_swallow_interrupt == "get"

\* where the master goes when KeyboardInterrupt is raised in r.get()
MultiPool_on_interrupt == "terminate"

\* SIGINT reaches the processes while the master waits in r.get(): a worker
\* process that ignores it goes on, any other dies of it
Interrupt ==
  /\ backend = "MultiPool"
  /\ mpc = "get"
  /\ interrupted' = TRUE
  /\ mpc' = MultiPool_on_interrupt
  /\ wpc' = [w \in Workers |->
               IF w \in Procs /\ wsig[w] # "SIG_IGN" THEN "killed" ELSE wpc[w]]
  /\ UNCHANGED <<cfgVars, loadbalance, twin, wvia, wstate, mstate, chanVars,
                 callVars, histVars, scopeVars, taskqueue, wjob, wsig, number_left,
                 timeouts>>

\* self.terminate()
MultiPool_map_terminate ==
  /\ backend = "MultiPool"
  /\ mpc = "terminate"
  /\ wpc' = [w \in Workers |-> IF w \in Procs THEN "terminated" ELSE wpc[w]]
  /\ taskqueue' = <<>>
  /\ mpc' = "join"
  /\ UNCHANGED <<cfgVars, loadbalance, twin, wvia, wstate, mstate, chanVars,
                 callVars, histVars, scopeVars, wjob, wsig, number_left, timeouts,
                 interrupted>>

\* self.join(), then raise
MultiPool_map_join ==
  /\ backend = "MultiPool"
  /\ mpc = "join"
  /\ wpc' = [w \in Workers |-> IF wpc[w] = "terminated" THEN "joined" ELSE wpc[w]]
  /\ mpc' = "KeyboardInterrupt"
  /\ UNCHANGED <<cfgVars, loadbalance, twin, wvia, wstate, mstate, chanVars,
                 callVars, histVars, scopeVars, taskqueue, wjob, wsig, number_left,
                 timeouts, interrupted>>

\* ------------------------------------------------- close and the with scope

\* GenericPool.__enter__
GenericPool_enter ==
  /\ backend # "MultiPool"
  /\ mpc = "app" /\ scope = "none"
  /\ scope' = "in"
  /\ target' = "self"
  /\ UNCHANGED <<fixed, mpc, workerVars, mstate, chanVars, callVars, histVars,
                 closer, exitCloses, bodyRaised, excOut>>

\* close() returns to the application code, or to __exit__, which returns
\* None, so that an exception of the body goes on to the caller
CloseReturns(by, raised) ==
  IF by = "exit"
  THEN /\ mpc' = "done" /\ scope' = "left" /\ excOut' = raised
  ELSE /\ mpc' = "app" /\ UNCHANGED <<scope, excOut>>

\* close() as the pool class defines it, called by `by`
Close(by, raised) ==
  /\ closer' = by
  /\ ncloses' = ncloses + 1
  /\ exitCloses' = exitCloses + (IF by = "exit" THEN 1 ELSE 0)
  /\ IF backend = "MPIOptimizedPool"
     THEN /\ toWorker' = MPIOptimizedPool_close(toWorker)
          /\ mpc' = "close_ack"
          /\ idx' = 0
          /\ phase' = TAG_CLOSE
          /\ UNCHANGED <<scope, excOut>>
     ELSE /\ toWorker' = (CASE backend = "MPIPool" -> MPIPool_close(toWorker)
                            [] backend = "MPIPool2" -> MPIPool2_close(toWorker)
                            [] OTHER -> toWorker)
          /\ CloseReturns(by, raised)
          /\ UNCHANGED <<idx, phase>>
  /\ UNCHANGED <<toMaster, callArgs, results, ntasks_dispatched, workerset,
                 tasklist, pending>>

\* MPIOptimizedPool.close, second half: a thumbs-up from every worker, then
\* the final message to each, and close() returns
MPIOptimizedPool_close_ack(worker) ==
  /\ backend = "MPIOptimizedPool"
  /\ mpc = "close_ack"
  /\ toMaster[worker] # <<>>
  /\ toMaster' = [toMaster EXCEPT ![worker] = Tail(@)]
  /\ IF Head(toMaster[worker]).tag # TAG_CLOSE
     THEN /\ mpc' = "AssertionError"
          /\ UNCHANGED <<toWorker, idx, scope, excOut>>
     ELSE IF idx + 1 < size
     THEN /\ idx' = idx + 1
          /\ UNCHANGED <<mpc, toWorker, scope, excOut>>
     ELSE /\ toWorker' = SendAll(toWorker, Msg("obj", TAG_CLOSE, None))
          /\ CloseReturns(closer, bodyRaised)
          /\ UNCHANGED idx
  /\ UNCHANGED <<fixed, workerVars, mstate, callArgs, phase, results,
                 ntasks_dispatched, workerset, tasklist, pending, histVars,
                 closer, target, exitCloses, bodyRaised>>

\* the application calls pool.close()
AppClose ==
  /\ mpc = "app" /\ scope = "in" /\ ncloses < MaxCloses
  /\ Close("app", FALSE)
  /\ UNCHANGED <<fixed, workerVars, mstate, ret, ncalls, fhist, sent, target, bodyRaised>>

\* an __exit__ that does not call close()
GenericPool_exit_no_close(raised) ==
  /\ mpc = "app" /\ scope = "in"
  /\ bodyRaised' = raised
  /\ mpc' = "done" /\ scope' = "left" /\ excOut' = raised
  /\ UNCHANGED <<fixed, workerVars, mstate, chanVars, callVars, histVars, closer,
                 target, exitCloses>>

\* GenericPool.__exit__: the body ended, normally or by an exception
GenericPool_exit(raised) ==
  /\ mpc = "app" /\ scope = "in"
  /\ bodyRaised' = raised
  /\ Close("exit", raised)
  /\ UNCHANGED <<fixed, workerVars, mstate, ret, ncalls, fhist, sent, target>>

\* ------------------------------------------------------------------- steps

Next ==
  \/ MasterInit
  \/ \E w \in Ranks : WorkerInit(w)
  \/ \E w \in Ranks : WorkerWait(w)
  \/ \E w \in Ranks : MPIPool_wait(w)
  \/ \E f \in Funcs, t \in Inputs : MPIPool_map(f, t)
  \/ MPIPool_map_static_recv
  \/ \E w \in Ranks : MPIPool_map_dyn_recv(w)
  \/ MPIPool_map_return
  \/ \E w \in Ranks : MPIPool2_wait(w)
  \/ \E w \in Ranks : MPIPool2_wait_sent(w)
  \/ \E f \in Funcs, t \in Inputs : MPIPool2_map(f, t)
  \/ \E w \in Ranks : MPIPool2_map_assign(w)
  \/ MPIPool2_map_skip
  \/ MPIPool2_map_continue
  \/ \E w \in Ranks : MPIPool2_map_recv(w)
  \/ MPIPool2_map_return
  \/ \E w \in Ranks : MPIOptimizedPool_wait(w)
  \/ \E w \in Ranks : MPIOptimizedPool_wait_ctl(w)
  \/ \E f \in Funcs, t \in Inputs, c \in 1..MaxCols : MPIOptimizedPool_map(f, t, c)
  \/ \E w \in Ranks : MPIOptimizedPool_map_ack1(w)
  \/ \E w \in Ranks : MPIOptimizedPool_map_ack2(w)
  \/ \E w \in Ranks : MPIOptimizedPool_map_task_recv(w)
  \/ MPIOptimizedPool_map_return
  \/ \E w \in Ranks : MPIOptimizedPool_close_ack(w)
  \/ \E f \in Funcs, t \in Inputs : SerialPool_map(f, t)
  \/ \E w \in Procs : initializer_wrapper(w)
  \/ \E f \in Funcs, t \in Inputs : MultiPool_map(f, t)
  \/ \E w \in Procs : MultiPool_worker_take(w)
  \/ \E w \in Procs : MultiPool_worker_done(w)
  \/ MultiPool_map_return
  \/ MultiPool_map_timeout
  \/ Interrupt
  \/ MultiPool_map_terminate
  \/ MultiPool_map_join
  \/ GenericPool_enter
  \/ AppClose
  \/ \E raised \in BOOLEAN : GenericPool_exit(raised)

Spec == Init /\ [][Next]_vars

\* ------------------------------------------- one input under both policies

\* the program is run again on the same process group with the other value
\* of MPIPool's loadbalance argument; what the finished run returned is kept
Rerun ==
  /\ backend = "MPIPool"
  /\ mpc = "app" /\ ret.has /\ ~twin.has
  /\ twin' = [has |-> TRUE, f |-> argf, tasks |-> tasks, val |-> ret.val,
              loadbalance |-> loadbalance]
  /\ loadbalance' = ~loadbalance
  /\ mpc' = "start"
  /\ wpc' = FreshWpc
  /\ wvia' = [w \in Workers |-> "none"]
  /\ mfunction' = placeholder_function
  /\ mdims' = <<1, 1>>
  /\ wfunction' = [w \in Workers |-> placeholder_function]
  /\ wdims' = [w \in Workers |-> <<1, 1>>]
  /\ wtag' = [w \in Workers |-> TAG_TASK]
  /\ toWorker' = [w \in Workers |-> <<>>]
  /\ toMaster' = [w \in Workers |-> <<>>]
  /\ argf' = placeholder_function
  /\ tasks' = <<>>
  /\ cols' = 1
  /\ chunks' = <<>>
  /\ phase' = TAG_TASK
  /\ results' = <<>>
  /\ idx' = 0
  /\ ntasks_dispatched' = 0
  /\ workerset' = {}
  /\ tasklist' = <<>>
  /\ pending' = 0
  /\ taskqueue' = <<>>
  /\ wjob' = [w \in Workers |-> None]
  /\ wsig' = [w \in Workers |-> "SIG_DFL"]
  /\ number_left' = 0
  /\ timeouts' = 0
  /\ interrupted' = FALSE
  /\ ret' = NoRet
  /\ ncalls' = 0
  /\ fhist' = <<>>
  /\ sent' = <<>>
  /\ ncloses' = 0
  /\ closer' = "none"
  /\ scope' = "none"
  /\ target' = "unbound"
  /\ exitCloses' = 0
  /\ bodyRaised' = FALSE
  /\ excOut' = FALSE
  /\ UNCHANGED cfgVars

\* the map call of a run: the second run is given the input of the first
MapOnce ==
  \E f \in Funcs, t \in Inputs :
    /\ ncalls = 0
    /\ twin.has => (f = twin.f /\ t = twin.tasks)
    /\ MPIPool_map(f, t)

InitEquiv == Init /\ backend = "MPIPool" /\ mpiAvail /\ commSize > 1

NextEquiv ==
  \/ MasterInit
  \/ \E w \in Ranks : WorkerInit(w)
  \/ \E w \in Ranks : WorkerWait(w)
  \/ \E w \in Ranks : MPIPool_wait(w)
  \/ GenericPool_enter
  \/ MapOnce
  \/ MPIPool_map_static_recv
  \/ \E w \in Ranks : MPIPool_map_dyn_recv(w)
  \/ MPIPool_map_return
  \/ Rerun

SpecEquiv == InitEquiv /\ [][NextEquiv]_vars

\* ------------------------------------------------------------- choose_pool

\* MPIPool2.enabled() and MultiPool.enabled()
MPIPool2_enabled == mpiAvail /\ commSize > 1
MultiPool_enabled == TRUE

\* a choose_pool that goes on to the other pools when MPI is not enabled
choose_pool_fallback(mpi_, processes_) ==
  IF mpi_ /\ MPIPool2_enabled THEN "MPIPool2"
  ELSE IF processes_ # 1 /\ MultiPool_enabled THEN "MultiPool"
  ELSE "SerialPool"

\* choose_pool: the class it constructs, or the error it raises first
choose_pool(mpi_, processes_) ==
  IF mpi_
  THEN IF ~MPIPool2_enabled THEN "SystemError" ELSE "MPIPool2"
  ELSE IF processes_ # 1 /\ MultiPool_enabled THEN "MultiPool"
  ELSE "SerialPool"

\* choose_pool on rank 0: the pool is constructed and returned
ChooseMaster ==
  /\ entry = "choose_pool"
  /\ mpc = "start"
  /\ LET cls == choose_pool(mpi, processes)
     IN /\ backend' = IF cls = "SystemError" THEN backend ELSE cls
        /\ mpc' = CASE cls = "SystemError" -> "SystemError"
                    [] cls = "MPIPool2" -> MPIPool2_init(0)
                    [] cls = "MultiPool" -> MultiPool_init
                    [] cls = "SerialPool" -> SerialPool_init
        /\ wpc' = [w \in Workers |->
                     IF cls = "MultiPool" /\ w \in Procs THEN "start" ELSE wpc[w]]
  /\ UNCHANGED <<mpiAvail, commSize, processes, wait_on_start, exit_on_end, entry, mpi,
                 sampleVars, loadbalance, multiVars, twin, wvia, wstate, mstate, chanVars,
                 callVars, histVars, scopeVars>>

\* choose_pool on worker rank w: the constructor runs (and with it the
\* service loop, when wait_on_start), and a pool that comes back is not
\* returned: if not pool.is_master(): sys.exit(0)
ChooseWorker(w) ==
  /\ entry = "choose_pool"
  /\ wpc[w] = "start"
  /\ LET cls == choose_pool(mpi, processes)
         how == IF cls = "SystemError" THEN "SystemError" ELSE MPIPool2_init(w)
     IN /\ backend' = IF cls = "SystemError" THEN backend ELSE cls
        /\ wpc' = [wpc EXCEPT ![w] = IF how = "app" THEN "exited" ELSE how]
        /\ wvia' = [wvia EXCEPT ![w] = IF how = "wait" THEN "ctor" ELSE @]
  /\ UNCHANGED <<mpiAvail, commSize, processes, wait_on_start, exit_on_end, entry, mpi,
                 sampleVars, loadbalance, multiVars, twin, mpc, wstate, mstate, chanVars,
                 callVars, histVars, scopeVars>>

\* the one map call of a program that got its pool from choose_pool
ChooseMapOnce ==
  \E f \in Funcs, t \in Inputs : ncalls = 0 /\ MPIPool2_map(f, t)

\* the arguments of choose_pool: mpi, processes, and wait_on_start among
\* the keyword arguments handed on to MPIPool2
InitChoose ==
  /\ entry = "choose_pool"
  /\ backend = "none"
  /\ mpi \in BOOLEAN
  /\ mpiAvail \in BOOLEAN
  /\ commSize \in (IF mpi THEN 1..(MaxN + 1) ELSE {1})
  /\ processes \in 0..MaxN
  /\ loadbalance = FALSE
  /\ wait_on_start \in (IF mpi THEN BOOLEAN ELSE {FALSE})
  /\ exit_on_end = FALSE
  /\ Fresh
  /\ twin = NoTwin

NextChoose ==
  \/ ChooseMaster
  \/ \E w \in Ranks : ChooseWorker(w)
  \/ \E w \in Ranks : MPIPool2_wait(w)
  \/ \E w \in Ranks : MPIPool2_wait_sent(w)
  \/ ChooseMapOnce
  \/ \E w \in Ranks : MPIPool2_map_assign(w)
  \/ MPIPool2_map_skip
  \/ MPIPool2_map_continue
  \/ \E w \in Ranks : MPIPool2_map_recv(w)
  \/ MPIPool2_map_return
  \/ GenericPool_enter
  \/ AppClose
  \/ \E raised \in BOOLEAN : GenericPool_exit(raised)

SpecChoose == InitChoose /\ [][NextChoose]_vars

\* -------------------------------------------------------- map on a worker

\* how map begins on a rank that is not the master: MPIPool and MPIPool2
\* call self.wait() (and return after it), MPIOptimizedPool asserts
MPIPool_map_on_worker == "wait"
MPIPool2_map_on_worker == "wait"
\* a map that waits on a worker as the other two classes do
MPIOptimizedPool_map_waits == "wait"
MPIOptimizedPool_map_on_worker == "AssertionError"

\* application code on worker rank w calls pool.map(...)
WorkerMap(w) ==
  /\ backend \in Distributed
  /\ wpc[w] = "app" /\ wvia[w] = "none"
  /\ wpc' = [wpc EXCEPT ![w] =
               CASE backend = "MPIPool" -> MPIPool_map_on_worker
                 [] backend = "MPIPool2" -> MPIPool2_map_on_worker
                 [] backend = "MPIOptimizedPool" -> MPIOptimizedPool_map_on_worker]
  /\ wvia' = [wvia EXCEPT ![w] = "map"]
  /\ UNCHANGED <<fixed, mpc, wstate, mstate, chanVars, callVars, histVars, scopeVars>>

\* the one map call of the master while the workers are inside theirs
MasterMapOnce ==
  \E f \in Funcs, t \in Inputs :
    /\ ncalls = 0
    /\ MPIPool_map(f, t) \/ MPIPool2_map(f, t)

\* every rank constructs its pool with wait_on_start = False and calls map
InitWorkerMap ==
  Init /\ backend \in Distributed /\ mpiAvail /\ commSize > 1 /\ ~wait_on_start

NextWorkerMap ==
  \/ MasterInit
  \/ \E w \in Ranks : WorkerInit(w)
  \/ \E w \in Ranks : WorkerMap(w)
  \/ \E w \in Ranks : MPIPool_wait(w)
  \/ \E w \in Ranks : MPIPool2_wait(w)
  \/ \E w \in Ranks : MPIPool2_wait_sent(w)
  \/ MasterMapOnce
  \/ MPIPool_map_static_recv
  \/ \E w \in Ranks : MPIPool_map_dyn_recv(w)
  \/ MPIPool_map_return
  \/ \E w \in Ranks : MPIPool2_map_assign(w)
  \/ MPIPool2_map_skip
  \/ MPIPool2_map_continue
  \/ \E w \in Ranks : MPIPool2_map_recv(w)
  \/ MPIPool2_map_return
  \/ GenericPool_enter
  \/ AppClose
  \/ \E raised \in BOOLEAN : GenericPool_exit(raised)

SpecWorkerMap == InitWorkerMap /\ [][NextWorkerMap]_vars

\* --------------------------------------------- the chunks of larger pools

MaxPadSize == 4
MaxPadTasks == 5
PadInputs == UNION {[1..n -> Vals] : n \in 0..MaxPadTasks}

\* the "Setup" part of MPIOptimizedPool.map, up to the matrix tasks, on a
\* pool of up to MaxPadSize workers
Opt_setup(iterable, c) ==
  /\ backend = "MPIOptimizedPool"
  /\ mpc = "app" /\ ncalls = 0
  /\ tasks' = iterable /\ cols' = c
  /\ chunks' = Opt_tasks(iterable)
  /\ mpc' = "setup"
  /\ UNCHANGED <<fixed, workerVars, mstate, chanVars, argf, callLocals, histVars, scopeVars>>

InitPad ==
  /\ backend = "MPIOptimizedPool" /\ entry = "direct" /\ mpi = FALSE
  /\ mpiAvail = TRUE
  /\ commSize \in 2..(MaxPadSize + 1)
  /\ processes = 1
  /\ loadbalance = FALSE /\ wait_on_start = FALSE /\ exit_on_end = FALSE
  /\ Fresh /\ twin = NoTwin

NextPad ==
  \/ MasterInit
  \/ \E iterable \in PadInputs, c \in 1..MaxCols : Opt_setup(iterable, c)

SpecPad == InitPad /\ [][NextPad]_vars

\* the steps the master can take inside MPIPool2.map
MPIPool2_master_step ==
  \/ \E w \in Ranks : MPIPool2_map_assign(w)
  \/ MPIPool2_map_skip
  \/ MPIPool2_map_continue
  \/ \E w \in Ranks : MPIPool2_map_recv(w)
  \/ MPIPool2_map_return

\* ------------------------------------- a failing receive in MPIPool.map

\* the exceptions comm.recv can raise on the master
RecvErrors == {"MPIException", "RuntimeError"}

\* an error path that returns the results collected so far
MPIPool_recv_error_returns(e) == "app"

\* except Exception as e: self.close(); raise e -- how map ends
MPIPool_on_recv_error(e) == e

\* the receive of the dynamic policy raises e: the pool is closed and the
\* exception leaves map
MPIPool_map_dyn_recv_fails(e) ==
  /\ backend = "MPIPool"
  /\ mpc = "dyn_recv"
  /\ idx < Len(tasks)
  /\ toWorker' = MPIPool_close(toWorker)
  /\ ncloses' = ncloses + 1
  /\ mpc' = MPIPool_on_recv_error(e)
  /\ ret' = IF mpc' = "app" THEN [has |-> TRUE, val |-> results] ELSE ret
  /\ UNCHANGED <<fixed, workerVars, mstate, toMaster, callVars, ncalls, fhist, sent,
                 scopeVars>>

\* a load-balancing MPIPool on at least two processes
InitFail ==
  /\ Init
  /\ backend = "MPIPool" /\ loadbalance /\ mpiAvail /\ commSize > 1

NextFail ==
  \/ MasterInit
  \/ \E w \in Ranks : WorkerInit(w)
  \/ \E w \in Ranks : WorkerWait(w)
  \/ \E w \in Ranks : MPIPool_wait(w)
  \/ GenericPool_enter
  \/ \E f \in Funcs, t \in Inputs : MPIPool_map(f, t)
  \/ MPIPool_map_static_recv
  \/ \E w \in Ranks : MPIPool_map_dyn_recv(w)
  \/ MPIPool_map_return
  \/ \E e \in RecvErrors : MPIPool_map_dyn_recv_fails(e)

SpecFail == InitFail /\ [][NextFail]_vars

\* -------------------------------------------- fair runs with serving workers

MaxLiveCalls == 2

\* every step of worker rank w: its constructor and the turns of its loop
WorkerStep(w) ==
  /\ w \in Ranks
  /\ \/ WorkerInit(w)
     \/ MPIPool_wait(w)
     \/ MPIPool2_wait(w)
     \/ MPIPool2_wait_sent(w)
     \/ MPIOptimizedPool_wait(w)
     \/ MPIOptimizedPool_wait_ctl(w)

\* the steps rank 0 takes by itself once it is inside map or close
MasterStep ==
  \/ MPIPool_map_static_recv
  \/ \E w \in Ranks : MPIPool_map_dyn_recv(w)
  \/ MPIPool_map_return
  \/ MPIPool2_master_step
  \/ \E w \in Ranks : MPIOptimizedPool_map_ack1(w)
  \/ \E w \in Ranks : MPIOptimizedPool_map_ack2(w)
  \/ \E w \in Ranks : MPIOptimizedPool_map_task_recv(w)
  \/ MPIOptimizedPool_map_return
  \/ \E w \in Ranks : MPIOptimizedPool_close_ack(w)

\* the application on rank 0 calls map, at most MaxLiveCalls times
LiveMap ==
  /\ ncalls < MaxLiveCalls
  /\ \/ \E f \in Funcs, t \in Inputs : MPIPool_map(f, t)
     \/ \E f \in Funcs, t \in Inputs : MPIPool2_map(f, t)
     \/ \E f \in Funcs, t \in Inputs, c \in 1..MaxCols : MPIOptimizedPool_map(f, t, c)

\* a distributed pool on at least two processes whose workers enter their
\* loop in the constructor
InitLive ==
  /\ Init
  /\ backend \in Distributed /\ mpiAvail /\ commSize > 1 /\ wait_on_start

NextLive ==
  \/ MasterInit
  \/ \E w \in Workers : WorkerStep(w)
  \/ GenericPool_enter
  \/ LiveMap
  \/ MasterStep
  \/ AppClose

\* every process of the group keeps running: a worker that can take a step
\* takes it, and so does rank 0 inside map and close
Fairness ==
  /\ \A w \in Workers : WF_vars(WorkerStep(w))
  /\ WF_vars(MasterStep)

SpecLive == InitLive /\ [][NextLive]_vars /\ Fairness

\* ------------------------------------------------- the base class by itself

\* GenericPool.wait and GenericPool.map: `return NotImplementedError(...)`,
\* the exception object is the value of the call
GenericPool_wait == [raised |-> FALSE, value |-> "NotImplementedError"]
GenericPool_map == [raised |-> FALSE, value |-> "NotImplementedError"]

\* how a call with outcome o ends for the caller on rank 0
CallEnds(o) ==
  IF o.raised
  THEN mpc' = o.value /\ ret' = NoRet
  ELSE mpc' = "app" /\ ret' = [has |-> TRUE, val |-> o.value]

\* GenericPool(): self.rank = 0
GenericPool_init ==
  /\ backend = "GenericPool"
  /\ mpc = "start"
  /\ mpc' = "app"
  /\ UNCHANGED <<fixed, workerVars, mstate, chanVars, callVars, histVars, scopeVars>>

\* pool.map(function, tasks) on a GenericPool
GenericPool_call_map(function, iterable) ==
  /\ backend = "GenericPool"
  /\ MayMap
  /\ ncalls' = ncalls + 1
  /\ argf' = function /\ tasks' = iterable
  /\ fhist' = Append(fhist, function)
  /\ CallEnds(GenericPool_map)
  /\ UNCHANGED <<fixed, workerVars, mstate, chanVars, cols, chunks, callLocals, sent,
                 ncloses, scopeVars>>

\* pool.wait() on a GenericPool
GenericPool_call_wait ==
  /\ backend = "GenericPool"
  /\ mpc = "app"
  /\ CallEnds(GenericPool_wait)
  /\ UNCHANGED <<fixed, workerVars, mstate, chanVars, callVars, ncalls, fhist, sent,
                 ncloses, scopeVars>>

InitGeneric ==
  /\ backend = "GenericPool" /\ entry = "direct" /\ mpi = FALSE
  /\ mpiAvail \in BOOLEAN
  /\ commSize = 1 /\ processes = 1
  /\ loadbalance = FALSE /\ wait_on_start = FALSE /\ exit_on_end = FALSE
  /\ Fresh /\ twin = NoTwin

NextGeneric ==
  \/ GenericPool_init
  \/ GenericPool_enter
  \/ \E f \in Funcs, t \in Inputs : GenericPool_call_map(f, t)
  \/ GenericPool_call_wait
  \/ AppClose
  \/ \E raised \in BOOLEAN : GenericPool_exit(raised)

SpecGeneric == InitGeneric /\ [][NextGeneric]_vars

\* ------------------------------------------------------------ JokerSamples

MaxSampleLen == 2
MaxKw == 2

\* self._valid_keys
valid_keys == <<"P", "M0", "e", "omega", "jitter", "K", "v0">>

\* the keys the program tries, one of them not a valid key
KeysTried == {"P", "K", "period"}

\* the values the program passes: one-dimensional arrays of up to
\* MaxSampleLen numbers (dim 1) and scalars (dim 0)
Arrays == UNION {[1..n -> 0..MaxVal] : n \in 0..MaxSampleLen}
SampleVals ==
  {[dim |-> 1, data |-> a] : a \in Arrays} \cup {[dim |-> 0, data |-> <<v>>] : v \in 0..MaxVal}

\* the keyword arguments of a constructor call: up to MaxKw of them, in the
\* order given, every key once
Kwargs ==
  {kw \in UNION {[1..n -> [key : KeysTried, val : SampleVals]] : n \in 0..MaxKw} :
     \A i, j \in 1..Len(kw) : kw[i].key = kw[j].key => i = j}

\* what the program subscripts the container with: an integer, a slice
\* a:b, or a key
Slices ==
  {[kind |-> "int", a |-> i, b |-> 0, key |-> ""] : i \in 0..MaxSampleLen}
    \cup {[kind |-> "slice", a |-> i, b |-> j, key |-> ""] :
            i \in 0..MaxSampleLen, j \in 0..MaxSampleLen}
    \cup {[kind |-> "str", a |-> 0, b |-> 0, key |-> k] : k \in KeysTried}

\* np.atleast_1d(val): a scalar becomes an array of one element
atleast_1d(val) == IF val.dim = 0 THEN [dim |-> 1, data |-> val.data] ELSE val

\* len(val) is defined for arrays only: len() of a scalar raises TypeError
HasLen(val) == val.dim > 0
len(val) == Len(val.data)

\* _validate_key: the exception it raises, "none" if it returns
JokerSamples_validate_key(key) ==
  IF \E i \in 1..Len(valid_keys) : valid_keys[i] = key THEN "none" ELSE "ValueError"

\* a validation that accepts a value of any length
JokerSamples_validate_val_any(n_samples, val) == [exc |-> "none", val |-> atleast_1d(val)]

\* _validate_val with self._n_samples = n_samples: the exception it raises
\* and the value it returns
JokerSamples_validate_val(n_samples, val) ==
  LET v == atleast_1d(val)
  IN IF n_samples # None /\ len(v) # n_samples
     THEN [exc |-> "ValueError", val |-> v]
     ELSE [exc |-> "none", val |-> v]

\* OrderedDict.__setitem__: a key that is present keeps its place
dict_setitem(items, key, val) ==
  IF \E i \in 1..Len(items) : items[i].key = key
  THEN [i \in 1..Len(items) |-> IF items[i].key = key THEN [key |-> key, val |-> val]
                                  ELSE items[i]]
  ELSE Append(items, [key |-> key, val |-> val])

\* JokerSamples.__setitem__ on the object self: the exception raised and the
\* object afterwards
JokerSamples_setitem(self, key, val) ==
  LET v == JokerSamples_validate_val(self.n_samples, val)
  IN IF JokerSamples_validate_key(key) # "none"
     THEN [exc |-> JokerSamples_validate_key(key), obj |-> self]
     ELSE IF v.exc # "none"
     THEN [exc |-> v.exc, obj |-> self]
     ELSE [exc |-> "none",
           obj |-> [self EXCEPT !.n_samples = IF @ = None THEN len(v.val) ELSE @,
                                !.items = dict_setitem(@, key, v.val)]]

\* self[key] = val for the pairs i.. of kv, in order, up to the first that raises
RECURSIVE SetAll(_, _, _)
SetAll(self, kv, i) ==
  IF i > Len(kv) THEN [exc |-> "none", obj |-> self]
  ELSE LET r == JokerSamples_setitem(self, kv[i].key, kv[i].val)
       IN IF r.exc # "none" THEN r ELSE SetAll(r.obj, kv, i + 1)

\* the loop of __init__ over kw from pair i on, with self._n_samples = n:
\* keys and values are validated, the first value gives the sample count
RECURSIVE JokerSamples_init_loop(_, _, _)
JokerSamples_init_loop(kw, i, n) ==
  IF i > Len(kw) THEN [exc |-> "none", n |-> n, kw |-> kw]
  ELSE LET v == JokerSamples_validate_val(n, kw[i].val)
           kw1 == [kw EXCEPT ![i].val = v.val]
       IN IF JokerSamples_validate_key(kw[i].key) # "none"
          THEN [exc |-> JokerSamples_validate_key(kw[i].key), n |-> n, kw |-> kw]
          ELSE IF v.exc # "none"
          THEN [exc |-> v.exc, n |-> n, kw |-> kw]
          ELSE IF n # None
          THEN JokerSamples_init_loop(kw1, i + 1, n)
          ELSE IF ~HasLen(kw[i].val)
          THEN [exc |-> "TypeError", n |-> n, kw |-> kw]
          ELSE JokerSamples_init_loop(kw1, i + 1, len(kw[i].val))

\* JokerSamples(**kw): the loop, then OrderedDict.__init__(**kw), which
\* stores every pair with self[key] = val
JokerSamples_init(kw) ==
  LET l == JokerSamples_init_loop(kw, 1, None)
  IN IF l.exc # "none" THEN [exc |-> l.exc, obj |-> NoSamples]
     ELSE SetAll([made |-> TRUE, items |-> <<>>, n_samples |-> l.n], l.kw, 1)

\* copy.copy(self): a new object is made without arguments, takes the
\* attributes of self, and then every item with new[key] = val
copy_copy(self) ==
  SetAll([made |-> TRUE, items |-> <<>>, n_samples |-> self.n_samples], self.items, 1)

\* val[slc] of a stored array: the exception raised and the value
Subscript(val, slc) ==
  IF slc.kind = "int"
  THEN IF slc.a >= len(val) THEN [exc |-> "IndexError", val |-> val]
       ELSE [exc |-> "none", val |-> [dim |-> 0, data |-> <<val.data[slc.a + 1]>>]]
  ELSE [exc |-> "none",
        val |-> [dim |-> 1,
                 data |-> SubSeq(val.data, slc.a + 1,
                                 IF slc.b < len(val) THEN slc.b ELSE len(val))]]

\* the loop of __getitem__: new[k] = self[k][slc] for the keys i.. of self
RECURSIVE JokerSamples_getitem_loop(_, _, _, _)
JokerSamples_getitem_loop(self, new, slc, i) ==
  IF i > Len(self.items) THEN [exc |-> "none", obj |-> new]
  ELSE LET v == Subscript(self.items[i].val, slc)
           r == JokerSamples_setitem(new, self.items[i].key, v.val)
       IN IF v.exc # "none" THEN [exc |-> v.exc, obj |-> new]
          ELSE IF r.exc # "none" THEN r
          ELSE JokerSamples_getitem_loop(self, r.obj, slc, i + 1)

\* JokerSamples.__getitem__ with something that is not a key: a copy whose
\* sample count is reset and whose values are the subscripted ones
JokerSamples_getitem(self, slc) ==
  LET new == copy_copy(self)
  IN IF new.exc # "none" THEN new
     ELSE JokerSamples_getitem_loop(self, [new.obj EXCEPT !.n_samples = None], slc, 1)

\* everything but the container
poolVars == <<backend, mpiAvail, commSize, processes, wait_on_start, exit_on_end, entry,
              mpi, loadbalance, mpc, workerVars, mstate, chanVars, callVars, histVars,
              scopeVars, multiVars, twin>>

\* samples = JokerSamples(**kw)
Construct_samples(kw) ==
  /\ ~samples.made
  /\ LET r == JokerSamples_init(kw)
     IN /\ outcome' = r.exc
        /\ samples' = IF r.exc = "none" THEN r.obj ELSE samples
  /\ op' = [NoOp EXCEPT !.name = "init"]
  /\ UNCHANGED poolVars

\* samples[key] = val
SetItem(key, val) ==
  /\ samples.made
  /\ LET r == JokerSamples_setitem(samples, key, val)
     IN /\ outcome' = r.exc
        /\ samples' = r.obj
  /\ op' = [NoOp EXCEPT !.name = "setitem", !.key = key, !.val = val]
  /\ UNCHANGED poolVars

\* samples = samples[slc] with an integer or a slice; samples[key] with a
\* key reads the stored value, KeyError if there is none
GetItem(slc) ==
  /\ samples.made
  /\ IF slc.kind = "str"
     THEN /\ outcome' = IF \E i \in 1..Len(samples.items) : samples.items[i].key = slc.key
                        THEN "none" ELSE "KeyError"
          /\ UNCHANGED samples
     ELSE LET r == JokerSamples_getitem(samples, slc)
          IN /\ outcome' = r.exc
             /\ samples' = IF r.exc = "none" THEN r.obj ELSE samples
  /\ op' = [NoOp EXCEPT !.name = "getitem", !.slc = slc]
  /\ UNCHANGED poolVars

InitSamples ==
  /\ backend = "SerialPool" /\ entry = "direct" /\ mpi = FALSE
  /\ mpiAvail = FALSE /\ commSize = 1 /\ processes = 1
  /\ loadbalance = FALSE /\ wait_on_start = FALSE /\ exit_on_end = FALSE
  /\ Fresh /\ twin = NoTwin

NextSamples ==
  \/ \E kw \in Kwargs : Construct_samples(kw)
  \/ \E key \in KeysTried, val \in SampleVals : SetItem(key, val)
  \/ \E slc \in Slices : GetItem(slc)

SpecSamples == InitSamples /\ [][NextSamples]_vars

\* ------------------------------------------------------------ role queries

\* self.rank of the pool object of process p (0 is the master, w a worker):
\* comm.Get_rank() in the MPI classes, 0 in SerialPool
self_rank(p) == IF backend \in Distributed THEN p ELSE 0

\* GenericPool.is_master and GenericPool.is_worker
is_master(p) == self_rank(p) = 0
is_worker(p) == self_rank(p) # 0

\* the classes that have the two methods: those derived from GenericPool;
\* MultiPool derives from multiprocessing.pool.Pool and defines neither
HasRoleQueries(b) == b \in Distributed \cup {"SerialPool"}

\* the processes that hold a constructed pool object
Constructed ==
  (IF mpc \in {"start", "ImportError", "ValueError", "SystemError"} THEN {} ELSE {0})
    \cup {w \in Ranks : wpc[w] \notin {"start", "ImportError", "ValueError", "SystemError"}}

\* ------------------------------------------------------------------ claims

\* the real rows of a chunk, and whether it carries the sentinel row
RealRows(rows) == SelectSeq(rows, LAMBDA x : x # NaNRow)
Padded(rows) == rows # <<>> /\ rows[Len(rows)] = NaNRow
Ceil(n, d) == (n + d - 1) \div d

\* the task arrays of the running map call still on their way to the workers
ChunkOf(w) == SelectSeq(toWorker[w], LAMBDA m : m.kind = "array" /\ m.tag = TAG_TASK)
RECURSIVE ChunkRows(_)
ChunkRows(w) ==
  IF w > size THEN <<>> ELSE RealRows(ChunkOf(w)[1].obj.rows) \o ChunkRows(w + 1)

\* values the function f can return for an input row
Range(f) == {Apply(f, x) : x \in Vals \cup {NaNRow}}

C2_MPIPool2MapIsSerial ==
  (backend = "MPIPool2" /\ ret.has) =>
    (\A i \in 1..Len(tasks) : i \in DOMAIN ret.val /\ ret.val[i] = Apply(argf, tasks[i]))
    /\ Len(ret.val) = Len(tasks)

C2_Witness ==
  /\ backend = "MPIPool2" /\ ret.has
  /\ size = 2 /\ Len(tasks) = 3 /\ tasks[1] # tasks[2]

\* C3: MPIOptimizedPool.map on the master returns exactly n results,
\* results[i] = function(row i), for n divisible by the worker count too: no
\* result of a real row is dropped
C3_OptMapIsSerial ==
  (backend = "MPIOptimizedPool" /\ ret.has) =>
    (Len(ret.val) = Len(tasks)
     /\ \A i \in 1..Len(tasks) : i \in DOMAIN ret.val /\ ret.val[i] = Apply(argf, tasks[i]))

\* C4: MPIOptimizedPool with n not divisible by N: every chunk sent has
\* ceil(n/N) rows, holding ceil(n/N) or floor(n/N) real rows in contiguous
\* input order; the chunks without a remainder row, and only they, end with
\* one sentinel row; map returns n results in row order, none of a sentinel
C4_OptPadding ==
  (backend = "MPIOptimizedPool" /\ ncalls > 0 /\ Len(tasks) % size # 0) =>
    /\ \A w \in Ranks : \A k \in 1..Len(ChunkOf(w)) :
         LET rows == ChunkOf(w)[k].obj.rows
             real == RealRows(rows)
         IN /\ Len(rows) = Ceil(Len(tasks), size)
            /\ Len(real) \in {Len(tasks) \div size, Ceil(Len(tasks), size)}
            /\ Padded(rows) <=> (Len(real) = Len(tasks) \div size)
            /\ \A j \in 1..Len(rows) : rows[j] = NaNRow => j = Len(rows)
    /\ (\A w \in Ranks : Len(ChunkOf(w)) = 1) => ChunkRows(1) = tasks
    /\ ret.has =>
         /\ Len(ret.val) = Len(tasks)
         /\ ret.val = Serial(argf, tasks)
         /\ \A i \in 1..Len(ret.val) : ret.val[i] # Apply(argf, NaNRow)

C4_Witness ==
  /\ backend = "MPIOptimizedPool" /\ ret.has
  /\ size = 2 /\ Len(tasks) = 3 /\ tasks[2] # tasks[3]

\* C5: MPIPool and MPIOptimizedPool, functions changing between map calls:
\* every result a worker has sent for the running call, and every result
\* the call returns, was computed by the function passed to that call
C5_NoStaleFunction ==
  (backend \in {"MPIPool", "MPIOptimizedPool"} /\ ncalls > 0) =>
    /\ \A w \in Ranks : \A k \in 1..Len(toMaster[w]) :
         LET m == toMaster[w][k]
         IN /\ m.kind = "result" => m.obj \in Range(argf)
            /\ (m.kind = "obj" /\ m.tag = TAG_TASK) =>
                 \A j \in 1..Len(m.obj) : m.obj[j] \in Range(argf)
    /\ ret.has => \A i \in 1..Len(ret.val) : ret.val[i] \in Range(argf)

C5_Witness ==
  /\ backend = "MPIOptimizedPool" /\ ret.has
  /\ fhist = <<"f1", "f2", "f1">> /\ ret.val # <<>>

C7_SecondCloseIsNoOp ==
  [][(ncloses >= 1 /\ ncloses' = ncloses + 1) =>
       (mpc' \in {"app", "done"} /\ wpc' = wpc /\ wstate' = wstate /\ mstate' = mstate)]_vars

C9_InterruptTerminates ==
  /\ interrupted =>
       (mpc \in {"terminate", "join", "KeyboardInterrupt"} /\ ~ret.has)
  /\ mpc = "join" => \A w \in Procs : wpc[w] = "terminated"
  /\ mpc = "KeyboardInterrupt" => (interrupted /\ \A w \in Procs : wpc[w] = "joined")

C9_Witness ==
  /\ mpc = "KeyboardInterrupt"
  /\ \E k \in 1..Len(results) : results[k] # None
  /\ \E k \in 1..Len(results) : results[k] = None

\* C10: a distributed pool constructed on a process group of one process
\* fails in the constructor: no pool is returned, no service loop entered
C10_OneProcessFails ==
  (backend \in Distributed /\ commSize = 1) =>
    /\ mpc \in {"start", "ImportError", "ValueError"}
    /\ mpiAvail /\ mpc # "start" => mpc = "ValueError"
    /\ \A w \in Workers : wpc[w] = "absent"

C10_Witness ==
  backend \in Distributed /\ commSize = 1 /\ mpc = "ValueError"

\* C11: choose_pool asked for MPI while MPIPool2 is not enabled (no mpi4py,
\* or one process) raises on every rank, whatever process count is asked
\* for: no pool of any class is constructed
C11_NoSilentFallback ==
  (entry = "choose_pool" /\ mpi /\ ~MPIPool2_enabled) =>
    /\ backend = "none"
    /\ mpc \in {"start", "SystemError"}
    /\ \A w \in Ranks : wpc[w] \in {"start", "SystemError"}

C11_Witness ==
  /\ entry = "choose_pool" /\ mpi /\ ~mpiAvail /\ commSize = 2 /\ processes = 2
  /\ mpc = "SystemError" /\ wpc[1] = "SystemError"

\* C12: choose_pool returns a distributed pool when MPI is asked for and
\* enabled, else a shared-memory pool exactly when the process count is
\* greater than 1, else a serial pool
C12_PriorityOrder ==
  (entry = "choose_pool" /\ mpc # "start" /\ ~(mpi /\ ~MPIPool2_enabled)) =>
    backend = (IF mpi THEN "MPIPool2"
               ELSE IF processes > 1 THEN "MultiPool"
               ELSE "SerialPool")

\* C13: under choose_pool with MPI, a worker rank enters the service loop
\* inside the constructor, leaves the program with sys.exit(0) when the loop
\* ends, and never gets to application code
C13_WorkersNeverReturn ==
  (entry = "choose_pool" /\ mpi /\ MPIPool2_enabled) =>
    \A w \in Ranks :
      /\ wpc[w] \in {"start", "wait", "ssend", "exited"}
      /\ wpc[w] # "start" => wvia[w] = "ctor"
      /\ wpc[w] = "exited" => ncloses >= 1

\* C14 (as claimed): map called on a worker rank of a distributed pool is
\* rejected with an error: the call neither serves tasks nor returns
C14_WorkerMapRejected ==
  \A w \in Ranks : wvia[w] = "map" => wpc[w] = "AssertionError"

\* C14 (amended): map on a worker rank of MPIOptimizedPool fails its
\* assertion; on a worker rank of MPIPool or MPIPool2 it enters the service
\* loop, serves until the close message has come, and only then returns
\* (MPIPool with exit_on_end leaves the program instead)
C14_WorkerMapServes ==
  \A w \in Ranks : wvia[w] = "map" =>
    IF backend = "MPIOptimizedPool"
    THEN wpc[w] = "AssertionError" /\ toMaster[w] = <<>>
    ELSE /\ wpc[w] \in {"wait", "ssend", "app", "exited"}
         /\ wpc[w] \in {"app", "exited"} => ncloses >= 1
         /\ wpc[w] = "exited" <=> (ncloses >= 1 /\ exit_on_end /\ wpc[w] \notin {"wait", "ssend"})

C14_Witness ==
  /\ backend = "MPIPool2" /\ size = 1 /\ wvia[1] = "map" /\ wpc[1] = "app"
  /\ ret.has /\ Len(tasks) = 2 /\ ret.val = Serial(argf, tasks)

\* C15: every pool class answers is_master() and is_worker(); on every pool
\* object exactly one of the two is true, and is_master() is true exactly
\* on rank 0, in every state of its life
C15_RoleQueries ==
  \A p \in Constructed :
    /\ HasRoleQueries(backend)
    /\ is_master(p) # is_worker(p)
    /\ is_master(p) <=> p = 0

\* the message that ends the loop of wait() is at the head of the channel
\* of worker w: None in MPIPool and MPIPool2, the payload that follows an
\* acknowledged close tag in MPIOptimizedPool
CloseAtHead(w) ==
  /\ toWorker[w] # <<>>
  /\ LET m == Head(toWorker[w])
     IN CASE backend = "MPIPool" -> m.kind = "close"
          [] backend = "MPIPool2" -> m.kind = "None"
          [] backend = "MPIOptimizedPool" ->
               wpc[w] = "ctl" /\ wtag[w] = TAG_CLOSE /\ m.tag = TAG_CLOSE
          [] OTHER -> FALSE

\* the states of a worker whose constructor has not raised
CtorFailed == {"ImportError", "ValueError"}

\* where the constructor leaves each rank
C16_CtorState ==
  /\ Construct(0) # "wait"
  /\ backend \in Distributed =>
       \A w \in Ranks :
         /\ wait_on_start /\ wpc[w] \notin {"start"} \cup CtorFailed => wvia[w] = "ctor"
         /\ ~wait_on_start => Construct(w) # "wait" /\ wvia[w] # "ctor"

\* a worker inside the constructor's loop leaves it only by taking the
\* close message
C16_CtorStep ==
  backend \in Distributed =>
    \A w \in Ranks :
      wvia[w] = "ctor" /\ wpc[w] \notin {"app", "exited"} /\ wpc'[w] \in {"app", "exited"}
        => CloseAtHead(w) /\ toWorker'[w] = Tail(toWorker[w])

\* C16: with wait_on_start a worker rank enters the loop of wait() inside the
\* constructor and does not come back to the application before it has
\* received the close message, while rank 0 never enters the loop; without
\* wait_on_start no rank enters the loop in the constructor
C16_WaitOnStart == []C16_CtorState /\ [][C16_CtorStep]_vars
C16_Witness ==
  /\ backend \in Distributed /\ wait_on_start /\ ncloses = 1
  /\ \E w \in Ranks : wvia[w] = "ctor" /\ wpc[w] = "app"

\* the input a dispatched task message carries
InputOf(m) == IF backend = "MPIPool2" THEN m.obj.arg ELSE m.obj

\* C17: within one map call of MPIPool (static and dynamic dispatch) and of
\* MPIPool2 the tags of the dispatched tasks are pairwise distinct, the task
\* sent with tag i is input i, and when map returns the tags used are
\* exactly 0 .. n_tasks - 1
C17_TagsUniqueDense ==
  backend \in {"MPIPool", "MPIPool2"} =>
    /\ \A j, k \in 1..Len(sent) : j # k => sent[j].tag # sent[k].tag
    /\ \A j \in 1..Len(sent) :
         /\ sent[j].tag \in 0..(Len(tasks) - 1)
         /\ InputOf(sent[j]) = tasks[sent[j].tag + 1]
    /\ ret.has => {sent[j].tag : j \in 1..Len(sent)} = 0..(Len(tasks) - 1)
C17_Witness ==
  /\ backend \in {"MPIPool", "MPIPool2"} /\ ret.has /\ Len(sent) = MaxTasks
  /\ tasks[1] = tasks[3] /\ tasks[1] # tasks[2]
  /\ backend = "MPIPool" => loadbalance /\ size = 2

\* the task chunks on their way to worker w
TaskChunks(ch, w) == SelectSeq(ch[w], LAMBDA m : m.kind = "array" /\ m.tag = TAG_TASK)

\* while a task chunk is on its way the negotiations of the call are over
\* on both sides
C18_ChunkState ==
  backend = "MPIOptimizedPool" =>
    \A w \in Ranks :
      \A k \in 1..Len(TaskChunks(toWorker, w)) :
        LET m == TaskChunks(toWorker, w)[k]
        IN /\ mpc = "task_recv"
           /\ wfunction[w] = argf /\ mfunction = argf
           /\ wdims[w] = m.obj.shape /\ mdims = m.obj.shape

\* the master's records change, and chunks leave, only after the last
\* acknowledgment of the workers
C18_PhaseStep ==
  backend = "MPIOptimizedPool" =>
    /\ mfunction' # mfunction =>
         /\ mpc = "ack2" /\ phase = TAG_NEW_FUNC /\ mfunction' = argf
         /\ \A w \in Ranks : wfunction[w] = argf /\ toMaster'[w] = <<>>
    /\ mdims' # mdims =>
         /\ mpc = "ack2" /\ phase = TAG_NEW_DIMS
         /\ \A w \in Ranks : wdims[w] = mdims' /\ toMaster'[w] = <<>>
    /\ \A w \in Ranks :
         Len(TaskChunks(toWorker', w)) > Len(TaskChunks(toWorker, w)) =>
           \A v \in Ranks :
             /\ wfunction[v] = argf' /\ wdims[v] = Opt_dims(Len(tasks'), cols')
             /\ toMaster'[v] = <<>> /\ wpc[v] # "ctl"

\* C18: in one map call of MPIOptimizedPool no task chunk is sent before
\* every worker has acknowledged twice every negotiation of the call, the
\* master updates its function and shape records only after those
\* acknowledgments, and a worker that receives a task chunk has the function
\* of the call and the shape of the chunk
C18_PhasesOrdered == []C18_ChunkState /\ [][C18_PhaseStep]_vars
C18_Witness ==
  /\ backend = "MPIOptimizedPool" /\ ncalls = 2 /\ fhist[1] # fhist[2]
  /\ \E w \in Ranks :
       /\ wpc[w] = "wait" /\ TaskChunks(toWorker, w) # <<>>
       /\ wdims[w] # <<1, 1>>

\* the master of MPIOptimizedPool is in a blocking receive
OptReceiving == mpc \in {"ack1", "ack2", "task_recv", "close_ack"}

\* the tag the assertion after that receive compares with
OptExpected == IF mpc = "task_recv" THEN TAG_TASK ELSE phase

\* C19: in MPIOptimizedPool, for every sequence of map calls (function and
\* shape changing or not) followed by one close and every interleaving of
\* the workers, no tag assertion fails on the master or on a worker: every
\* message on its way to the master carries the tag of the master's phase,
\* and the payload a worker receives after acknowledging a control tag
\* carries that tag
C19_NoTagMismatch ==
  backend = "MPIOptimizedPool" /\ ncloses <= 1 =>
    /\ mpc # "AssertionError"
    /\ \A w \in Ranks :
         /\ wpc[w] # "AssertionError"
         /\ toMaster[w] # <<>> => OptReceiving
         /\ \A k \in 1..Len(toMaster[w]) : toMaster[w][k].tag = OptExpected
         /\ wpc[w] = "ctl" /\ toWorker[w] # <<>> =>
              Head(toWorker[w]).kind = "obj" /\ Head(toWorker[w]).tag = wtag[w]
C19_Witness ==
  /\ backend = "MPIOptimizedPool" /\ ncloses = 1 /\ mpc \in {"app", "done"}
  /\ ncalls = 2 /\ fhist[1] # fhist[2] /\ mdims # <<1, 1>>
  /\ \A w \in Ranks : wvia[w] # "none" /\ wpc[w] \in {"app", "exited"}

\* self.dims of worker w once it has taken the first k messages of q
RECURSIVE DimsAfter(_, _, _)
DimsAfter(w, q, k) ==
  IF k = 0 THEN wdims[w]
  ELSE IF q[k].kind = "obj" /\ q[k].tag = TAG_NEW_DIMS THEN q[k].obj
  ELSE DimsAfter(w, q, k - 1)

\* a shape negotiation is in progress on the master
DimsInProgress == mpc \in {"ack1", "ack2"} /\ phase = TAG_NEW_DIMS

\* C20: in MPIOptimizedPool every fixed-shape message the master sends has
\* the shape its worker expects when it receives it: control placeholders
\* have the shape negotiated before, task chunks the shape of the call, and
\* outside a shape negotiation every worker records the shape the master
\* records (both (1,1) at the start)
C20_ShapesAgree ==
  backend = "MPIOptimizedPool" =>
    \A w \in Ranks :
      /\ wpc[w] # "MPIError"
      /\ \A k \in 1..Len(toWorker[w]) :
           LET m == toWorker[w][k]
           IN m.kind = "array" =>
                /\ m.obj.shape = DimsAfter(w, toWorker[w], k - 1)
                /\ m.obj.shape = mdims
                /\ m.tag = TAG_TASK => m.obj.shape = Opt_dims(Len(tasks), cols)
      /\ wpc[w] = "wait" /\ toWorker[w] # <<>> => Head(toWorker[w]).kind = "array"
      /\ ~DimsInProgress => wdims[w] = mdims
C20_Witness ==
  /\ backend = "MPIOptimizedPool" /\ mdims # <<1, 1>>
  /\ \E w \in Ranks :
       /\ wpc[w] = "wait" /\ toWorker[w] # <<>>
       /\ Head(toWorker[w]).kind = "array" /\ Head(toWorker[w]).tag = TAG_NEW_DIMS

\* the chunks of the matrix that end with the sentinel row
PaddedChunks == {w \in 1..size : Padded(chunks[w])}

\* C21 as stated: with r = rows mod worker_count # 0, exactly r chunks of
\* MPIOptimizedPool.map are padded with a sentinel row
C21_PaddedIsR ==
  (backend = "MPIOptimizedPool" /\ chunks # <<>> /\ Len(tasks) % size # 0) =>
    Cardinality(PaddedChunks) = Len(tasks) % size

\* C21: with r = rows mod worker_count # 0, exactly worker_count - r chunks
\* of MPIOptimizedPool.map are padded with a sentinel row: the chunks that got
\* no remainder row, which are the last ones
C21_PaddedIsRest ==
  (backend = "MPIOptimizedPool" /\ chunks # <<>> /\ Len(tasks) % size # 0) =>
    /\ Cardinality(PaddedChunks) = size - (Len(tasks) % size)
    /\ PaddedChunks = ((Len(tasks) % size) + 1)..size
C21_Witness ==
  /\ backend = "MPIOptimizedPool" /\ chunks # <<>>
  /\ size = 4 /\ Len(tasks) = 5 /\ Cardinality(PaddedChunks) = 3

\* the tasks dispatched to worker w whose result the master has not received
Outstanding(w) ==
  Len(SelectSeq(toWorker[w], LAMBDA m : m.kind = "task")) + Len(toMaster[w])

\* the indices of the tasks of the call not dispatched yet
Undispatched == {i \in 0..(Len(tasks) - 1) : \A j \in 1..Len(sent) : sent[j].tag # i}
MinOf(S) == CHOOSE x \in S : \A y \in S : x <= y

\* every worker has at most one unanswered task
C22_OnePerWorker ==
  backend = "MPIPool" /\ mpc = "dyn_recv" => \A w \in Ranks : Outstanding(w) <= 1

\* after the first round a dispatch goes to the worker just heard from and
\* carries the lowest index not dispatched yet
C22_DispatchStep ==
  backend = "MPIPool" /\ mpc = "dyn_recv" /\ sent' # sent =>
    /\ Len(sent') = Len(sent) + 1
    /\ \E w \in Ranks :
         LET m == sent'[Len(sent')]
         IN /\ toMaster[w] # <<>> /\ toMaster'[w] = Tail(toMaster[w])
            /\ toWorker'[w] = Append(toWorker[w], m)
            /\ m.tag = MinOf(Undispatched)
            /\ \A v \in Ranks \ {w} : toWorker'[v] = toWorker[v] /\ toMaster'[v] = toMaster[v]

\* C22: in the dynamic dispatch of MPIPool every worker has at most one task
\* dispatched to it and not yet answered; after the first round a task goes
\* only to the worker whose result was just received, and it is the
\* lowest-indexed task not dispatched yet
C22_DynamicDispatch == []C22_OnePerWorker /\ [][C22_DispatchStep]_vars
C22_Witness ==
  /\ backend = "MPIPool" /\ mpc = "dyn_recv" /\ size = 2
  /\ Len(tasks) = 3 /\ Len(sent) = 3
  /\ \E w \in Ranks : Outstanding(w) = 1 /\ wpc[w] = "wait"

\* the workers of MPIPool2 that hold a task not yet answered
Busy == {w \in Ranks : Outstanding(w) >= 1}

\* the idle set and the busy workers partition the workers, and pending
\* counts the results not recorded
C23_Partition ==
  backend = "MPIPool2" /\ mpc \in {"loop", "probe"} =>
    /\ workerset \cap Busy = {}
    /\ workerset \cup Busy = Ranks
    /\ pending = Cardinality({i \in 1..Len(results) : results[i] = None})

\* a task goes to an idle worker, which leaves the set; a worker comes back
\* only in the step that receives its result
C23_IdleStep ==
  backend = "MPIPool2" /\ mpc \in {"loop", "probe"} =>
    /\ sent' # sent =>
         \E w \in workerset :
           /\ workerset' = workerset \ {w}
           /\ toWorker'[w] = Append(toWorker[w], sent'[Len(sent')])
    /\ \A w \in Ranks :
         w \notin workerset /\ w \in workerset' =>
           /\ toMaster[w] # <<>> /\ toMaster'[w] = Tail(toMaster[w])
           /\ pending' = pending - 1

\* C23: throughout a map call of MPIPool2 the idle set and the set of
\* workers holding an unanswered task are disjoint and together are all the
\* workers; a task is sent only to an idle worker, which leaves the set; a
\* worker re-enters it only when the master receives its result; pending
\* equals the number of results not recorded
C23_IdleSet == []C23_Partition /\ [][C23_IdleStep]_vars
C23_Witness ==
  /\ backend = "MPIPool2" /\ mpc = "probe" /\ size = 2 /\ Len(tasks) = 3
  /\ pending = 1 /\ Cardinality(workerset) = 1 /\ tasklist = <<>>

\* the master is inside map and cannot take a step: it waits in Probe
MPIPool2_blocked ==
  backend = "MPIPool2" /\ mpc \in {"loop", "probe"} /\ ~ENABLED MPIPool2_master_step

\* C24: the master of MPIPool2 never blocks while tasks remain to be
\* dispatched; whenever it blocks every task has been dispatched and some
\* dispatched task has no recorded result and is still with its worker
C24_BlocksOnlyWhenAllSent ==
  MPIPool2_blocked =>
    /\ tasklist = <<>> /\ Undispatched = {}
    /\ \E j \in 1..Len(sent) : results[sent[j].tag + 1] = None
    /\ \E w \in Ranks : Outstanding(w) >= 1
C24_Witness ==
  /\ MPIPool2_blocked /\ size = 2 /\ Len(tasks) = 3 /\ pending = 2
  /\ \E w \in Ranks : wpc[w] = "wait"

MaxOf(S) == CHOOSE x \in S : \A y \in S : x >= y

\* the indices not dispatched before the j-th dispatch of the call
NotSentBefore(j) ==
  {i \in 0..(Len(tasks) - 1) : \A k \in 1..(j - 1) : sent[k].tag # i}

\* C25: MPIPool2 hands the tasks out in reverse enumeration order: the first
\* task sent has id n - 1 and every task sent is the highest-indexed one not
\* sent before; the list map returns is in input order all the same
C25_ReverseDispatch ==
  backend = "MPIPool2" =>
    /\ sent # <<>> => sent[1].tag = Len(tasks) - 1
    /\ \A j \in 1..Len(sent) : sent[j].tag = MaxOf(NotSentBefore(j))
    /\ ret.has => ret.val = Serial(argf, tasks)
C25_Witness ==
  /\ backend = "MPIPool2" /\ ret.has /\ Len(tasks) = 3 /\ Len(sent) = 3
  /\ sent[1].tag = 2 /\ sent[3].tag = 0 /\ tasks[1] # tasks[3]

\* rank 0 is inside a map call
InMap == mpc \in {"static_recv", "dyn_recv", "loop", "probe", "ack1", "ack2", "task_recv"}

\* C26: with every worker in its loop and scheduled fairly, every map call
\* of MPIPool (static and dynamic), MPIPool2 and MPIOptimizedPool returns:
\* the master never waits for a message no worker will send
C26_MapReturns == InMap ~> (mpc = "app" /\ ret.has)
C26_Witness ==
  /\ backend \in Distributed /\ wait_on_start /\ ncalls = MaxLiveCalls
  /\ mpc = "app" /\ ret.has /\ Len(tasks) = MaxTasks /\ size = MaxN
  /\ fhist[1] # fhist[2]

\* every worker rank has left the loop of wait()
WorkersLeft == \A w \in Ranks : wpc[w] \in {"app", "exited"} /\ wvia[w] # "none"

\* close() of MPIPool and MPIPool2 returns in the step that sends, with no
\* receive on the master
C27_CloseStep ==
  backend \in {"MPIPool", "MPIPool2"} /\ ncloses' = ncloses + 1 =>
    /\ mpc' \in {"app", "done"} /\ toMaster' = toMaster
    /\ \A w \in Ranks : toWorker'[w] # toWorker[w] /\ toWorker'[w][Len(toWorker'[w])].kind \in {"close", "None"}

\* once close() of MPIOptimizedPool has returned no acknowledgment is on
\* its way to the master
C27_NoSecondAck ==
  backend = "MPIOptimizedPool" /\ ncloses = 1 /\ mpc # "close_ack" =>
    \A w \in Ranks : toMaster[w] = <<>>

\* C27: after one close() on a distributed pool whose workers serve, close()
\* returns on the master and every worker leaves its loop; MPIPool and
\* MPIPool2 do not wait for any acknowledgment, MPIOptimizedPool waits for
\* the acknowledgment of the close tag only and not for one of the payload
C27_CloseEnds ==
  /\ (ncloses = 1) ~> (mpc = "app" /\ WorkersLeft)
  /\ [][C27_CloseStep]_vars
  /\ []C27_NoSecondAck
C27_Witness ==
  /\ backend = "MPIOptimizedPool" /\ ncloses = 1 /\ mpc = "app" /\ size = MaxN
  /\ ncalls > 0 /\ WorkersLeft

\* C28: when a receive of the dynamic dispatch of MPIPool fails, the master
\* sends the close message to every worker and map raises that same
\* failure; no result list is returned, whatever was collected before
C28_RecvFailureCloses ==
  [][\A e \in RecvErrors :
       MPIPool_map_dyn_recv_fails(e) =>
         /\ mpc' = e
         /\ ~ret'.has
         /\ \A w \in Ranks : toWorker'[w] = Append(toWorker[w], Msg("close", 0, None))]_vars
C28_Witness ==
  /\ backend = "MPIPool" /\ mpc \in RecvErrors /\ size = 2 /\ idx >= 1
  /\ ~ret.has /\ ncloses = 1
  /\ \E w \in Ranks : wpc[w] \in {"app", "exited"} /\ wvia[w] # "none"

\* the tasks of the batch a worker process is running
Running == {w \in Procs : wpc[w] = "busy"}
Done == {k \in 1..Len(results) : results[k] # None}

\* a timeout changes nothing but the count of timeouts
C29_TimeoutStep ==
  backend = "MultiPool" /\ timeouts' = timeouts + 1 =>
    /\ mpc = "get" /\ mpc' = "get"
    /\ <<ret, ncalls, taskqueue, wjob, number_left, results>>'
         = <<ret, ncalls, taskqueue, wjob, number_left, results>>

\* every task of the batch is queued, running or done, once; map has
\* returned only with the whole batch done
C29_OneBatch ==
  backend = "MultiPool" =>
    /\ mpc # "TimeoutError"
    /\ mpc = "get" =>
         /\ ~ret.has
         /\ Len(taskqueue) + Cardinality(Running) + Cardinality(Done) = Len(tasks)
         /\ number_left = Len(taskqueue) + Cardinality(Running)
    /\ ret.has => /\ number_left = 0 /\ ~interrupted
                  /\ Cardinality(Done) = Len(tasks)
                  /\ ret.val = Serial(argf, tasks)

\* C29: a timeout of the bounded wait of MultiPool.map never reaches the
\* caller: after any number of timeouts in a row the master waits again on
\* the batch it submitted once, and map returns only with the result of the
\* whole batch, unless an interrupt arrives
C29_TimeoutInvisible == []C29_OneBatch /\ [][C29_TimeoutStep]_vars
C29_Witness ==
  /\ backend = "MultiPool" /\ ret.has /\ timeouts = 2 /\ Len(tasks) = 3
  /\ tasks[1] # tasks[2]

\* worker w takes a message from its channel in this step
Takes(w) == toWorker[w] # <<>> /\ toWorker'[w] = Tail(toWorker[w])

\* the message taken is a task
TaskAtHead(w) ==
  /\ toWorker[w] # <<>>
  /\ IF backend = "MPIPool" THEN Head(toWorker[w]).kind = "task"
     ELSE wpc[w] = "wait" /\ Head(toWorker[w]).kind = "array"
          /\ Head(toWorker[w]).tag = TAG_TASK

\* the message taken rebinds what the tag `what` names
RebindAtHead(w, what) ==
  /\ toWorker[w] # <<>>
  /\ IF backend = "MPIPool" THEN what = TAG_NEW_FUNC /\ Head(toWorker[w]).kind = "func"
     ELSE wpc[w] = "ctl" /\ wtag[w] = what /\ Head(toWorker[w]).kind = "obj"
          /\ Head(toWorker[w]).tag = what

\* one step seen from the workers' session state
C30_FrameStep ==
  backend \in {"MPIPool", "MPIOptimizedPool"} =>
    \A w \in Ranks :
      /\ wfunction'[w] # wfunction[w] =>
           Takes(w) /\ RebindAtHead(w, TAG_NEW_FUNC) /\ wfunction'[w] = Head(toWorker[w]).obj
      /\ wdims'[w] # wdims[w] =>
           /\ backend = "MPIOptimizedPool"
           /\ Takes(w) /\ RebindAtHead(w, TAG_NEW_DIMS) /\ wdims'[w] = Head(toWorker[w]).obj
      /\ Takes(w) /\ TaskAtHead(w) =>
           wfunction'[w] = wfunction[w] /\ wdims'[w] = wdims[w]

\* C30: in MPIPool and MPIOptimizedPool the function (and shape) a worker
\* holds changes only in the step in which the worker processes the control
\* message that rebinds it, to what that message carries; a step that
\* processes a task changes neither
C30_WorkerStateFrame == [][C30_FrameStep]_vars
C30_Witness ==
  /\ backend = "MPIOptimizedPool" /\ ncalls = 2 /\ fhist[1] # fhist[2] /\ ret.has
  /\ \E w \in Ranks : wfunction[w] = fhist[2] /\ wdims[w] # <<1, 1>> /\ wpc[w] = "wait"

\* the messages on their way to worker w that announce or carry a new
\* function, and those that announce or carry a new shape
FuncMsgs(ch, w) ==
  SelectSeq(ch[w], LAMBDA m : IF backend = "MPIPool" THEN m.kind = "func"
                              ELSE m.tag = TAG_NEW_FUNC)
DimsMsgs(ch, w) == SelectSeq(ch[w], LAMBDA m : m.tag = TAG_NEW_DIMS)

\* a rebind message leaves the master only for a function, or a shape, that
\* differs from the one the master has bound
C31_RebindStep ==
  \A w \in Ranks :
    /\ backend \in {"MPIPool", "MPIOptimizedPool"}
         /\ Len(FuncMsgs(toWorker', w)) > Len(FuncMsgs(toWorker, w))
         => argf' # mfunction
    /\ backend = "MPIOptimizedPool"
         /\ Len(DimsMsgs(toWorker', w)) > Len(DimsMsgs(toWorker, w))
         => Opt_dims(Len(tasks'), cols') # mdims

\* C31: a map call of MPIPool or MPIOptimizedPool whose function is the one
\* the master has bound sends no function rebind, and a map call of
\* MPIOptimizedPool whose chunk shape is the negotiated one sends no shape
\* rebind: only task messages go out in those calls
C31_RebindOnlyOnChange == [][C31_RebindStep]_vars
C31_Witness ==
  /\ backend \in {"MPIPool", "MPIOptimizedPool"} /\ ncalls = 2 /\ fhist[1] = fhist[2]
  /\ mpc \in {"static_recv", "dyn_recv", "task_recv"}
  /\ \E w \in Ranks : wpc[w] = "wait" /\ toWorker[w] # <<>> /\ wfunction[w] = argf

\* the task messages on their way to worker w
TaskMsgs(ch, w) == SelectSeq(ch[w], LAMBDA m : m.kind = "task")

\* the step that starts a map call of MPIPool picks the policy, and the
\* static policy sends task i to worker (i mod size) + 1 with tag i
C32_PolicyStep ==
  backend = "MPIPool" /\ ncalls' = ncalls + 1 =>
    /\ mpc' = "dyn_recv" <=> (loadbalance /\ Len(tasks') > size)
    /\ mpc' = "static_recv" <=> (~loadbalance \/ Len(tasks') <= size)
    /\ mpc' = "static_recv" =>
         /\ Len(sent') = Len(tasks')
         /\ \A i \in 0..(Len(tasks') - 1) :
              \E k \in 1..Len(TaskMsgs(toWorker', (i % size) + 1)) :
                TaskMsgs(toWorker', (i % size) + 1)[k] = Msg("task", i, tasks'[i + 1])

\* the static policy receives result i from the worker of task i, with
\* tag i, in index order
C32_StaticRecvStep ==
  backend = "MPIPool" /\ mpc = "static_recv" /\ idx' # idx =>
    LET w == (idx % size) + 1
    IN /\ idx' = idx + 1
       /\ \E k \in 1..Len(toMaster[w]) :
            /\ toMaster[w][k].tag = idx
            /\ toMaster'[w] = Remove(toMaster[w], k)
            /\ results' = Append(results, toMaster[w][k].obj)
       /\ \A v \in Ranks \ {w} : toMaster'[v] = toMaster[v]

\* C32: MPIPool dispatches dynamically only when loadbalance is true and
\* there are more tasks than workers; otherwise statically: task i goes to
\* worker (i mod worker_count) + 1 with tag i and its result is received
\* from that worker with tag i, in index order
C32_DispatchPolicy == [][C32_PolicyStep /\ C32_StaticRecvStep]_vars
C32_Witness ==
  /\ backend = "MPIPool" /\ loadbalance /\ size = 2 /\ Len(tasks) = 2
  /\ mpc = "static_recv" /\ idx = 1

\* worker w has left the loop of wait()
LeftLoop(w) == wpc[w] \in {"app", "exited"} /\ wvia[w] # "none"

\* the step in which a worker receives close ends its process exactly when
\* exit_on_end is set, and otherwise returns from wait(); afterwards the
\* worker takes no message
C33_ExitStep ==
  backend \in {"MPIPool", "MPIOptimizedPool"} =>
    \A w \in Ranks :
      /\ CloseAtHead(w) /\ Takes(w) /\ wpc[w] \in {"wait", "ctl"} =>
           /\ wpc'[w] = "exited" <=> exit_on_end
           /\ wpc'[w] = "app" <=> ~exit_on_end
      /\ LeftLoop(w) => ~Takes(w) /\ wpc'[w] = wpc[w]

\* only a worker of a pool with exit_on_end is ever terminated
C33_ExitState ==
  backend \in {"MPIPool", "MPIOptimizedPool"} =>
    \A w \in Ranks :
      /\ wpc[w] = "exited" => exit_on_end
      /\ LeftLoop(w) /\ exit_on_end => wpc[w] = "exited"

\* C33: in MPIPool and MPIOptimizedPool a worker that receives close ends
\* its process if and only if exit_on_end is true; with exit_on_end false
\* wait() returns to its caller, and the worker processes no further message
C33_ExitOnEnd == []C33_ExitState /\ [][C33_ExitStep]_vars
C33_Witness ==
  /\ backend = "MPIPool" /\ exit_on_end /\ ncalls > 0 /\ size = 2
  /\ \A w \in Ranks : wpc[w] = "exited"

\* C34: map and wait of the base GenericPool end in a raised error and never
\* return a value to the caller
C34_BaseRaises == backend = "GenericPool" => ~ret.has

\* the master is back in the application with the result of a map call and
\* has not closed the pool
MapReturned == backend \in Distributed /\ mpc = "app" /\ ret.has /\ ncloses = 0

\* C35: when a map call of a distributed backend has returned on the master
\* no message is in flight in either direction, so no result of one map call
\* is left for a later call to receive
C35_NothingInFlight ==
  MapReturned => \A w \in Ranks : toWorker[w] = <<>> /\ toMaster[w] = <<>>

\* what does hold at the return: nothing is on its way to the master, no
\* worker is inside a handshake, and the only messages on their way to a
\* worker are function rebinds of MPIPool
C35_TasksAndResultsDrained ==
  MapReturned =>
    \A w \in Ranks :
      /\ toMaster[w] = <<>>
      /\ \A k \in 1..Len(toWorker[w]) :
           backend = "MPIPool" /\ toWorker[w][k].kind = "func"
      /\ wpc[w] # "ctl"

\* no worker has met the placeholder function
C36_NoPlaceholderState ==
  backend \in {"MPIPool", "MPIOptimizedPool"} => \A w \in Ranks : wpc[w] # "Exception"

\* a worker that takes a task message holds a function a rebind gave it
C36_TaskStep ==
  backend \in {"MPIPool", "MPIOptimizedPool"} =>
    \A w \in Ranks :
      Takes(w) /\ TaskAtHead(w) =>
        /\ wfunction[w] # placeholder_function
        /\ wfunction[w] \in {fhist[k] : k \in 1..Len(fhist)}

\* C36: in MPIPool and MPIOptimizedPool, with map calls that pass real
\* functions, no worker applies the placeholder function to a task: a worker
\* that processes a task message has processed a function rebind before
C36_NeverPlaceholder == []C36_NoPlaceholderState /\ [][C36_TaskStep]_vars
C36_Witness ==
  /\ backend \in {"MPIPool", "MPIOptimizedPool"} /\ ncalls = 1 /\ ret.has
  /\ Len(tasks) = MaxTasks
  /\ \A w \in Ranks : wfunction[w] = argf /\ argf # placeholder_function

\* every stored value is an array of as many elements as the recorded
\* sample count
C37_Consistent ==
  samples.made =>
    \A i \in 1..Len(samples.items) :
      /\ samples.items[i].val.dim = 1
      /\ samples.n_samples # None
      /\ len(samples.items[i].val) = samples.n_samples

\* an assignment the container must refuse: a key that is not valid, or a
\* value whose length is not the recorded sample count
Refused(self, key, val) ==
  \/ \A i \in 1..Len(valid_keys) : valid_keys[i] # key
  \/ self.n_samples # None /\ len(atleast_1d(val)) # self.n_samples

\* a refused assignment raises ValueError and changes nothing, any other
\* assignment stores the value
C37_SetItemStep ==
  op'.name = "setitem" /\ samples.made /\ <<samples, op, outcome>>' # <<samples, op, outcome>> =>
    IF Refused(samples, op'.key, op'.val)
    THEN outcome' = "ValueError" /\ samples' = samples
    ELSE /\ outcome' = "none"
         /\ \E i \in 1..Len(samples'.items) :
              samples'.items[i] = [key |-> op'.key, val |-> atleast_1d(op'.val)]

\* C37: after any sequence of construction, item assignment and slicing of a
\* JokerSamples object every stored value has the recorded sample count as
\* its length; an assignment with an invalid key or with a value of another
\* length raises ValueError and leaves keys, values and sample count as they
\* were
C37_SamplesConsistent == []C37_Consistent /\ [][C37_SetItemStep]_vars
C37_Witness ==
  /\ samples.made /\ Len(samples.items) = 2 /\ samples.n_samples = 1
  /\ op.name = "setitem" /\ outcome = "ValueError" /\ len(op.val) = 2
  /\ op.key = "P"

====
